---- MODULE Spec2Model ----
(***************************************************************************)
(* Request-dispatch engine of the gateway: the credential pool with its    *)
(* disallow overlay, the attempt closure of a provider (aistudio           *)
(* handle_generate), the status classification, the dispatch paths with    *)
(* their traffic recording, and the streaming fan-out.                     *)
(***************************************************************************)
EXTENDS Integers, Sequences, FiniteSets, TLC

(* ------------------------------ bounds --------------------------------- *)
StartTime == 10
MaxTicks == 2
MaxChunks == 2
ChanCap == 1
MaxConfigPuts == 2
MaxStreams == 1

(* ------------------------- program constants --------------------------- *)
DefaultRetryAfter == 60
TransientSecs == 30

(* ------------------------------ domains -------------------------------- *)
CredIds == {1, 2, 3}
Models == {"m1", "m2"}
AllModels == "all"
Scopes == Models \cup {AllModels}
ThisProvider == 1
OtherProvider == 2
NoProvider == 0

NoUntil == -1
NoDur == -1
NoSecs == -1

NoMark == [scope |-> "", level |-> "none", duration |-> NoDur, reason |-> ""]

RaNone == [k |-> "none", v |-> 0]
RaSecs(n) == [k |-> "secs", v |-> n]
RaDate(t) == [k |-> "date", v |-> t]
RaBad == [k |-> "bad", v |-> 0]

NoBody == [src |-> "none", cred |-> 0, tag |-> "", data |-> <<>>]
UpstreamBody(cred, status) ==
    [src |-> "upstream", cred |-> cred, tag |-> ToString(status), data |-> <<>>]
SyntheticBody(msg) == [src |-> "synthetic", cred |-> 0, tag |-> msg, data |-> <<>>]
\* the body a stream recorder assembled: the data payloads it kept, in order
StreamBodyOf(payloads) ==
    [src |-> "stream", cred |-> 0, tag |-> "", data |-> payloads]
\* the body a unary transform produced from an upstream body
TransformedBody(body) == [body EXCEPT !.src = "transformed"]

NoItem == ""

NoPass == [status |-> 0, ra |-> RaNone, body |-> NoBody, headers |-> {}]

\* UpstreamPassthroughError::new(status, headers, body): the error keeps the
\* upstream's status, headers and body as handle_response passes them
\* (Retry-After is kept in `ra`)
PassthroughNew(status, ra, headers, body) ==
    [status |-> status, ra |-> ra, body |-> body, headers |-> headers]

VARIABLES
    db,        \* storage rows: credentials and credential_disallow
    pool,      \* the pool's current snapshot (the shared pointer's target)
    now,       \* wall clock, seconds
    ticks,     \* clock advances so far
    adminOps,  \* pool replacements by admin handlers so far
    exec,      \* per caller: the state of its execute call
    resp,      \* per caller: what the handler sent to the client
    traffic,   \* traffic records emitted, in emission order
    st,        \* streaming fan-out of the request of caller 1
    srv,       \* the process: configuration, storage handle, bind watch
               \* channel and the serve loop with its listener
    adm,       \* the api_keys table, the auth map and the admin handlers
               \* in flight
    bus,       \* the state queue of the storage bus, what its actor has
               \* stored, and the pool operation that emits a state event
    dsp,       \* the dispatch of one request: its plan, the request handed
               \* to call_native and the usage kind of the upstream recorder
    usg,       \* the recorder task of a streamed response: the data frames it
               \* has still to take, its usage state and the usage it records
    loc,       \* a vertexexpress request for the models list, a model or a token
               \* count: its attempts, the upstream HTTP calls made and its records
    fetch,     \* one usage fetch (claudecode, codex): the attempt of the current
               \* credential, its requests and token refreshes, and how it ended
    reg        \* the registry beside the pool of this provider: the snapshot of the
               \* other provider, the providers table and the provider maps

vars == <<db, pool, now, ticks, adminOps, exec, resp, traffic, st, srv, adm, bus, dsp, usg, loc, fetch, reg>>

Callers == {1, 2}

(* ------------------------- upstream.rs --------------------------------- *)

\* a parse of Retry-After that knows the seconds form only
RetryAfterSecondsOnly(ra, t) == IF ra.k = "secs" THEN ra.v ELSE NoSecs

\* retry_after_seconds: the header parsed as u64 seconds, else as an HTTP
\* date in the future (seconds from now), else nothing.
RetryAfterSeconds(ra, t) ==
    CASE ra.k = "secs" -> ra.v
      [] ra.k = "date" -> IF ra.v >= t THEN ra.v - t ELSE NoSecs
      [] OTHER -> NoSecs

\* a classification that ignores the Retry-After header
ClassifyStatusNoHeader(status, ra, scope, t) ==
    CASE status \in {401, 403} ->
            [scope |-> scope, level |-> "Dead", duration |-> NoDur,
             reason |-> "auth_error"]
      [] status = 429 ->
            [scope |-> scope, level |-> "Cooldown",
             duration |-> DefaultRetryAfter, reason |-> "rate_limit"]
      [] status \in {502, 503, 504} ->
            [scope |-> scope, level |-> "Transient", duration |-> TransientSecs,
             reason |-> "upstream_unavailable"]
      [] OTHER -> NoMark

ClassifyStatus(status, ra, scope, t) ==
    CASE status \in {401, 403} ->
            [scope |-> scope, level |-> "Dead", duration |-> NoDur,
             reason |-> "auth_error"]
      [] status = 429 ->
            LET s == RetryAfterSeconds(ra, t)
            IN [scope |-> scope, level |-> "Cooldown",
                duration |-> IF s = NoSecs THEN DefaultRetryAfter ELSE s,
                reason |-> "rate_limit"]
      [] status \in {502, 503, 504} ->
            [scope |-> scope, level |-> "Transient", duration |-> TransientSecs,
             reason |-> "upstream_unavailable"]
      [] OTHER -> NoMark

ServiceUnavailable(msg) ==
    [status |-> 503, ra |-> RaNone, body |-> SyntheticBody(msg), headers |-> {}]

\* a network failure that takes the credential out for good
NetworkFailureDead(scope) ==
    [passthrough |-> ServiceUnavailable("network_error"),
     mark |-> [scope |-> scope, level |-> "Dead",
               duration |-> NoDur, reason |-> "network_error"]]

NetworkFailure(scope) ==
    [passthrough |-> ServiceUnavailable("network_error"),
     mark |-> [scope |-> scope, level |-> "Transient",
               duration |-> TransientSecs, reason |-> "network_error"]]

IsSuccess(status) == status >= 200 /\ status < 300

\* an upstream record that leaves the body out
UpRecordWithoutBody(c, cred, status, body, isStream) ==
    [dir |-> "up", req |-> c, cred |-> cred, status |-> status,
     body |-> NoBody, stream |-> isStream]

UpRecord(c, cred, status, body, isStream) ==
    [dir |-> "up", req |-> c, cred |-> cred, status |-> status,
     body |-> body, stream |-> isStream]

DownRecord(c, status, body, isStream) ==
    [dir |-> "down", req |-> c, cred |-> 0, status |-> status,
     body |-> body, stream |-> isStream]

\* handle_response: the result of one upstream HTTP answer.  `o` is the
\* answer: its status, its Retry-After header and whether its body could
\* be read.  Returns the attempt result and the records emitted.
HandleResponse(c, cred, o, isStream, scope, t) ==
    IF ~IsSuccess(o.status)
    THEN IF o.kind = "bodyerr"
         THEN [ok |-> FALSE, records |-> <<>>, kind |-> "none",
               status |-> 0, body |-> NoBody,
               passthrough |-> NetworkFailure(scope).passthrough,
               mark |-> NetworkFailure(scope).mark]
         ELSE [ok |-> FALSE,
               records |-> <<UpRecord(c, cred, o.status,
                                      UpstreamBody(cred, o.status), FALSE)>>,
               kind |-> "none", status |-> 0, body |-> NoBody,
               passthrough |-> PassthroughNew(o.status, o.ra, o.headers,
                                              UpstreamBody(cred, o.status)),
               mark |-> ClassifyStatus(o.status, o.ra, scope, t)]
    ELSE IF isStream
         THEN [ok |-> TRUE, records |-> <<>>, kind |-> "stream",
               status |-> o.status, body |-> NoBody,
               passthrough |-> NoPass, mark |-> NoMark]
         ELSE IF o.kind = "bodyerr"
              THEN [ok |-> FALSE, records |-> <<>>, kind |-> "none",
                    status |-> 0, body |-> NoBody,
                    passthrough |-> NetworkFailure(scope).passthrough,
                    mark |-> NetworkFailure(scope).mark]
              ELSE [ok |-> TRUE, records |-> <<>>, kind |-> "json",
                    status |-> o.status,
                    body |-> UpstreamBody(cred, o.status),
                    passthrough |-> NoPass, mark |-> NoMark]

(* ------------------- provider/aistudio/mod.rs -------------------------- *)

InvalidCredential(scope, msg) ==
    [passthrough |-> ServiceUnavailable(msg),
     mark |-> [scope |-> scope, level |-> "Dead", duration |-> NoDur,
               reason |-> msg]]

\* The attempt closure of handle_generate for one credential: a credential
\* without api_key is invalid (marked Dead); shared_client failing, and an
\* api_key that is no legal header value (build_gemini_headers), fail the
\* attempt with a 503 and no mark before any request is sent; a request
\* that fails on the network is a network failure; an answer goes to
\* handle_response.
HandleGenerateAttempt(c, cred, o, isStream, scope, t) ==
    CASE o.kind = "nokey" ->
            [ok |-> FALSE, records |-> <<>>, kind |-> "none", status |-> 0,
             body |-> NoBody,
             passthrough |-> InvalidCredential(scope, "missing api_key").passthrough,
             mark |-> InvalidCredential(scope, "missing api_key").mark]
      [] o.kind = "clienterr" ->
            [ok |-> FALSE, records |-> <<>>, kind |-> "none", status |-> 0,
             body |-> NoBody,
             passthrough |-> ServiceUnavailable("client"),
             mark |-> NoMark]
      [] o.kind = "badheader" ->
            [ok |-> FALSE, records |-> <<>>, kind |-> "none", status |-> 0,
             body |-> NoBody,
             passthrough |-> ServiceUnavailable("failed to parse header value"),
             mark |-> NoMark]
      [] o.kind = "senderr" ->
            [ok |-> FALSE, records |-> <<>>, kind |-> "none", status |-> 0,
             body |-> NoBody,
             passthrough |-> NetworkFailure(scope).passthrough,
             mark |-> NetworkFailure(scope).mark]
      [] OTHER -> HandleResponse(c, cred, o, isStream, scope, t)

(* --------------------------- admin.rs ---------------------------------- *)

ParseDisallowScope(kind, value) ==
    CASE kind \in {"all_models", "all"} -> AllModels
      [] kind = "model" /\ value # "" -> value
      [] OTHER -> ""

ParseDisallowLevel(level) ==
    CASE level = "cooldown" -> "Cooldown"
      [] level = "transient" -> "Transient"
      [] level = "dead" -> "Dead"
      [] OTHER -> ""

\* a rebuild that takes the credentials of every provider
PoolEntriesOfAnyProvider(rows, provider) ==
    [i \in 1..Len(rows.credentials) |->
        [id |-> rows.credentials[i].id, enabled |-> rows.credentials[i].enabled,
         weight |-> IF rows.credentials[i].weight >= 0
                    THEN rows.credentials[i].weight ELSE 0]]

\* refresh_provider_pool: the snapshot built from the stored rows of one
\* provider.  Credentials keep storage order; negative weights clamp to 0;
\* disallow rows of other providers' credentials or with an unknown scope
\* or level are skipped; a later row of the same key overwrites an earlier.
PoolEntries(rows, provider) ==
    LET mine == SelectSeq(rows.credentials, LAMBDA r : r.provider_id = provider)
    IN [i \in 1..Len(mine) |->
            [id |-> mine[i].id, enabled |-> mine[i].enabled,
             weight |-> IF mine[i].weight >= 0 THEN mine[i].weight ELSE 0]]

SeqRange(s) == {s[i] : i \in 1..Len(s)}

\* to_system_time: a time before the epoch has no SystemTime (NoUntil
\* stands for None)
ToSystemTime(ts) == IF ts < 0 THEN NoUntil ELSE ts

\* refresh_provider_pool, the disallow map: `until` is that of the row
\* and_then to_system_time, `updated_at` is to_system_time of the row's or
\* else the epoch
PoolDisallow(rows, provider) ==
    LET ids == {e.id : e \in SeqRange(PoolEntries(rows, provider))}
        usable == {i \in 1..Len(rows.disallow) :
                     /\ rows.disallow[i].credential_id \in ids
                     /\ ParseDisallowScope(rows.disallow[i].scope_kind,
                                           rows.disallow[i].scope_value) # ""
                     /\ ParseDisallowLevel(rows.disallow[i].level) # ""}
        KeyOf(i) == <<rows.disallow[i].credential_id,
                      ParseDisallowScope(rows.disallow[i].scope_kind,
                                         rows.disallow[i].scope_value)>>
        keys == {KeyOf(i) : i \in usable}
        Last(k) == CHOOSE i \in usable :
                      KeyOf(i) = k /\ \A j \in usable : KeyOf(j) = k => j <= i
    IN [k \in keys |->
            [level |-> ParseDisallowLevel(rows.disallow[Last(k)].level),
             until |-> ToSystemTime(rows.disallow[Last(k)].until_at),
             reason |-> rows.disallow[Last(k)].reason,
             updated_at |-> IF ToSystemTime(rows.disallow[Last(k)].updated_at) = NoUntil
                            THEN 0
                            ELSE ToSystemTime(rows.disallow[Last(k)].updated_at)]]

RefreshProviderPool(rows, provider) ==
    [credentials |-> PoolEntries(rows, provider),
     disallow |-> PoolDisallow(rows, provider)]

(* -------------------- credential pool (execute) ------------------------ *)

\* an entry that blocks whatever its `until`
ActiveIgnoringUntil(entry, t) == TRUE

Active(entry, t) == entry.until = NoUntil \/ entry.until > t

\* a check that looks at the requested scope only
BlockedAtScopeOnly(snap, id, scope, t) ==
    \E k \in DOMAIN snap.disallow :
        k[1] = id /\ k[2] = scope /\ Active(snap.disallow[k], t)

\* A credential is blocked at a scope by an active disallow on AllModels
\* or on that scope.
Blocked(snap, id, scope, t) ==
    \E k \in DOMAIN snap.disallow :
        /\ k[1] = id
        /\ k[2] \in {AllModels, scope}
        /\ Active(snap.disallow[k], t)

\* an eligibility list that keeps disabled credentials
EligibleIgnoringEnabled(snap, scope, t) ==
    {e \in SeqRange(snap.credentials) : ~Blocked(snap, e.id, scope, t)}

Eligible(snap, scope, t) ==
    {e \in SeqRange(snap.credentials) : e.enabled /\ ~Blocked(snap, e.id, scope, t)}

\* an order with the tie-break reversed
BeforeTieDescending(a, b) ==
    a.weight > b.weight \/ (a.weight = b.weight /\ a.id > b.id)

\* Descending weight, ties by ascending credential id.
Before(a, b) == a.weight > b.weight \/ (a.weight = b.weight /\ a.id < b.id)

RECURSIVE SortEntries(_)
SortEntries(S) ==
    IF S = {} THEN <<>>
    ELSE LET first == CHOOSE a \in S : \A b \in S \ {a} : Before(a, b)
         IN <<first.id>> \o SortEntries(S \ {first})

AttemptOrder(snap, scope, t) == SortEntries(Eligible(snap, scope, t))

\* a mark applied to a private copy of the snapshot that is never installed
ApplyMarkToCopy(snap, id, mark, t) == snap

\* A mark applied to a snapshot at time t.  A mark on AllModels clears the
\* narrower marks of the same credential.
ApplyMark(snap, id, mark, t) ==
    LET key == <<id, mark.scope>>
        kept == {k \in DOMAIN snap.disallow :
                    ~(mark.scope = AllModels /\ k[1] = id /\ k[2] # AllModels)}
        entry == [level |-> mark.level,
                  until |-> IF mark.duration = NoDur THEN NoUntil
                            ELSE t + mark.duration,
                  reason |-> mark.reason,
                  updated_at |-> t]
    IN [snap EXCEPT !.disallow =
            [k \in kept \cup {key} |-> IF k = key THEN entry ELSE snap.disallow[k]]]

\* a success that clears every entry of the credential
ApplySuccessWholeCredential(snap, id, scope) ==
    LET kept == {k \in DOMAIN snap.disallow : k[1] # id}
    IN [snap EXCEPT !.disallow = [k \in kept |-> snap.disallow[k]]]

\* A success clears a Transient mark on (credential, scope).
ApplySuccess(snap, id, scope) ==
    LET key == <<id, scope>>
        kept == {k \in DOMAIN snap.disallow :
                    ~(k = key /\ snap.disallow[k].level = "Transient")}
    IN [snap EXCEPT !.disallow = [k \in kept |-> snap.disallow[k]]]

NoCredentialsAvailable ==
    [status |-> 503, ra |-> RaNone, body |-> SyntheticBody("no_credentials_available"),
     headers |-> {}]

EmptySnapshot == [credentials |-> <<>>, disallow |-> <<>>]

\* a function without the argument `x`
Without(f, x) == [y \in DOMAIN f \ {x} |-> f[y]]

\* a function with `x` mapped to `v`
With(f, x, v) == [y \in DOMAIN f \cup {x} |-> IF y = x THEN v ELSE f[y]]

\* the names of the two providers of the registry that the model follows
ThisName == "aistudio"
OtherName == "other"

\* the providers table at start-up
InitialProviders ==
    [id \in {ThisProvider, OtherProvider} |->
        IF id = ThisProvider THEN ThisName ELSE OtherName]

\* the registry and the provider maps after start-up: `other` is the pool
\* of the other provider (here without credentials), `names` and `ids` the
\* maps provider_names and provider_ids of the admin state
InitialRegistry ==
    [other |-> EmptySnapshot,
     names |-> InitialProviders,
     ids |-> [n \in {ThisName, OtherName} |->
                IF n = ThisName THEN ThisProvider ELSE OtherProvider]]

\* snapshot::build_provider_pools: one pool for each provider of the loaded
\* snapshot, under the provider's name
BuildProviderPools(rows, providers) ==
    [n \in {providers[id] : id \in DOMAIN providers} |->
        RefreshProviderPool(rows, CHOOSE id \in DOMAIN providers : providers[id] = n)]

\* snapshot::build_auth_snapshot: the keys of the loaded snapshot by value
\* and its users by id
BuildAuthSnapshot(snap) == [keys_by_value |-> snap.keys, users_by_id |-> snap.users]

\* snapshot::build_provider_id_map: the ids of the stored providers by name
BuildProviderIdMap(providers) ==
    [n \in {providers[id] : id \in DOMAIN providers} |->
        CHOOSE id \in DOMAIN providers : providers[id] = n]

\* registry.apply_pools: the pool named `name` after the pools of the map
\* have replaced those they name
Applied(pools, name, old) == IF name \in DOMAIN pools THEN pools[name] ELSE old

NoOk == [kind |-> "none", status |-> 0, body |-> NoBody, cred |-> 0]

\* an inbound request: the provider name of the path, the API key of the
\* headers ("" when there is none) and the rest of the path
NoRequest == [provider |-> "", key |-> "", path |-> ""]

IdleExec ==
    [pc |-> "idle", req |-> NoRequest,
     scope |-> "", plan |-> "", stream |-> FALSE, meta |-> FALSE,
     at |-> 0, ops |-> <<>>, snap |-> EmptySnapshot, order |-> <<>>, tried |-> <<>>,
     pass |-> NoPass, ok |-> NoOk, ctx |-> "", auth |-> <<>>]

NoResp == [kind |-> "none", status |-> 0, ra |-> RaNone, body |-> NoBody]

\* The handler builds the call context, the provider plans the request, and
\* execute reads the snapshot once and fixes the attempt order.
StartExecute(c, scope, plan, isStream, meta) ==
    /\ exec[c].pc = "idle"
    /\ LET snap == pool
           order == AttemptOrder(snap, scope, now)
       IN exec' = [exec EXCEPT ![c] =
                [@ EXCEPT !.pc = IF order = <<>> THEN "fail" ELSE "loop",
                          !.scope = scope, !.plan = plan,
                          !.stream = isStream, !.meta = meta,
                          !.ctx = srv.proxy,
                          !.at = now, !.ops = <<adminOps>>, !.snap = snap, !.order = order,
                          !.pass = IF order = <<>> THEN NoCredentialsAvailable
                                   ELSE NoPass]]
    /\ UNCHANGED <<db, pool, now, ticks, adminOps, resp, traffic, st, srv, adm, bus, dsp, usg, loc, fetch, reg>>

\* a loop that takes the next credential from the pool's current snapshot
NextCredentialFromCurrent(e, current, t) ==
    LET fresh == SelectSeq(AttemptOrder(current, e.scope, t),
                           LAMBDA id : \A i \in 1..Len(e.tried) : e.tried[i].cred # id)
    IN IF fresh # <<>> THEN fresh[1] ELSE e.order[Len(e.tried) + 1]

\* a loop that goes back to the first credential of the order
NextCredentialFromFirst(e, current, t) == e.order[1]

\* The credential of the next attempt: the next one of the order fixed at
\* the start of the call.
NextCredential(e, current, t) == e.order[Len(e.tried) + 1]

\* One iteration of the attempt loop: the attempt function runs for the next
\* credential of the fixed order with upstream answer o; a failure's mark is
\* applied to the pool's current snapshot, a success clears a Transient mark.
Attempt(c, o) ==
    /\ exec[c].pc = "loop"
    /\ LET e == exec[c]
           id == NextCredential(e, pool, now)
           r == HandleGenerateAttempt(c, id, o, e.stream, e.scope, now)
           last == Len(e.tried) + 1 = Len(e.order)
       IN /\ traffic' = traffic \o r.records
          /\ pool' = IF r.ok THEN ApplySuccess(pool, id, e.scope)
                     ELSE IF r.mark.level = "none" THEN pool
                     ELSE ApplyMark(pool, id, r.mark, now)
          /\ exec' = [exec EXCEPT ![c] =
                [@ EXCEPT !.tried = Append(@, [cred |-> id, o |-> o]),
                          !.ops = Append(@, adminOps),
                          !.pc = IF r.ok THEN "ok"
                                 ELSE IF last THEN "fail" ELSE "loop",
                          !.pass = IF r.ok THEN NoPass ELSE r.passthrough,
                          !.ok = IF r.ok
                                 THEN [kind |-> r.kind, status |-> r.status,
                                       body |-> r.body, cred |-> id]
                                 ELSE NoOk]]
    /\ UNCHANGED <<db, now, ticks, adminOps, resp, st, srv, adm, bus, dsp, usg, loc, fetch, reg>>

(* --------------------------- handler.rs -------------------------------- *)

\* a handler that answers every failure with its own 503
PassthroughErrorGeneric(err) ==
    [kind |-> "error", status |-> 503, ra |-> RaNone,
     body |-> SyntheticBody("service_unavailable"), headers |-> {}]

PassthroughError(err) ==
    [kind |-> "error", status |-> err.status, ra |-> err.ra, body |-> err.body,
     headers |-> err.headers]

\* the registry: the provider names that resolve to a handle
KnownProviders == {"aistudio"}

\* no request is being dispatched
NoPlan == [kind |-> "", req |-> "", op |-> "", variant |-> "", usage |-> ""]

\* a provider id that is None
NoId == 0

\* a call context without downstream metadata
NoMeta == [present |-> FALSE, provider_id |-> NoId]

NoDispatch ==
    [pc |-> "none", provider |-> "", req |-> "", plan |-> NoPlan, handed |-> "",
     usage |-> "", result |-> "", meta |-> NoMeta, ctx_native |-> NoMeta,
     provider_id |-> NoId]

\* no vertexexpress request is being answered
NoLocal ==
    [pc |-> "none", op |-> "", name |-> "", plan |-> "", meta |-> FALSE,
     keys |-> <<>>, tried |-> 0, http |-> 0, status |-> 0, body |-> "",
     request_body |-> "", records |-> <<>>, answer |-> 0]

\* a stream usage state that has found no usage
NoUsage == 0

\* no stream is being recorded
NoRecorder ==
    [pc |-> "none", kind |-> "", frames |-> <<>>, taken |-> <<>>, state |-> NoUsage,
     recorded |-> NoUsage]

\* the state queue is empty, nothing is stored, and no pool operation is
\* emitting: `event` is the event of the operation, `waited` the time it
\* has been blocked on the full queue, `retries` its refused enqueues, and
\* `applied` lists the events whose mark was applied in memory
NoEvent ==
    [cred |-> 0, scope |-> "", level |-> "", until |-> NoUntil, reason |-> "",
     at |-> 0]

InitialBus ==
    [queue |-> <<>>, taken |-> <<>>, applied |-> <<>>,
     op |-> [pc |-> "idle", event |-> NoEvent, mark |-> NoMark, waited |-> 0,
             retries |-> 0]]

\* the api_keys row that ensure_admin_user writes: id 0, user 0, enabled
AdminKeyRow == [key_id |-> 0, user_id |-> 0, enabled |-> TRUE]

\* the api_keys table once run has called ensure_admin_user with the admin
\* key "K", and the auth map built from it: key value -> (key id, user id,
\* enabled)
AuthKeys ==
    [k \in {"K", "k-valid", "k-disabled"} |->
        IF k = "K" THEN AdminKeyRow
        ELSE [key_id |-> IF k = "k-valid" THEN 1 ELSE 2, user_id |-> 1,
              enabled |-> k = "k-valid"]]

\* the users table once run has called ensure_admin_user: id -> name
InitialUsers == [id \in {0, 1} |-> IF id = 0 THEN "admin" ELSE "u1"]

Admins == {1, 2, 3}

\* a header that is absent
NoHeader == [kind |-> "none", scheme |-> "", sep |-> "", token |-> "", pad |-> FALSE]

\* a header value: `scheme` and `sep` are the word and the blank before the
\* token ("" when the value is the token alone), `pad` says that blanks
\* surround the value and the token; kind "opaque" is a value that is not
\* visible ASCII
HeaderValue(scheme, sep, token, pad) ==
    [kind |-> "text", scheme |-> scheme, sep |-> sep, token |-> token, pad |-> pad]

OpaqueHeader == [kind |-> "opaque", scheme |-> "", sep |-> "", token |-> "", pad |-> FALSE]

\* an admin request: the route, the two headers the guard looks at, and
\* whether the path id and the JSON body can be extracted
NoAdminRequest == [route |-> "", x_admin_key |-> NoHeader, authorization |-> NoHeader,
                   body |-> "ok"]

\* an admin handler that has not started: `op` is the handler, `dsn` the
\* database of the storage handle it took from the admin state, `id` and
\* `row` are the path id and the payload it works on, `provider` and `name`
\* the provider whose pool it refreshes, `creds`, `dis`, `keys`, `users`
\* and `providers` are the rows it has loaded, `was` is the auth map and
\* the pool it found when apply_snapshot began
IdleAdmin ==
    [pc |-> "idle", op |-> "", dsn |-> "", id |-> 0, row |-> <<>>,
     provider |-> NoProvider, name |-> "", creds |-> <<>>, dis |-> <<>>,
     keys |-> <<>>, users |-> <<>>, providers |-> <<>>,
     old_name |-> "", was |-> <<>>, req |-> NoAdminRequest, answer |-> 0]

\* the auth snapshot after start-up, keys_by_value as `auth`, and the
\* admin handlers in flight
InitialAdmin ==
    [auth |-> AuthKeys, users_by_id |-> InitialUsers,
     h |-> [a \in Admins |-> IdleAdmin]]

\* the auth guard: the identity of the key, or Unauthorized when the key is
\* missing, unknown or disabled
Authenticated(key) == key \in DOMAIN adm.auth /\ adm.auth[key].enabled

\* the classifier accepts the paths of the dialects it knows
Classifies(path) == path = "v1beta/models/m1:generateContent"

\* error_response: the status and the body of a ProxyError, no headers
LocalError(status, msg) ==
    [kind |-> "error", status |-> status, ra |-> RaNone,
     body |-> SyntheticBody(msg), headers |-> {}]

\* proxy_handler, first step: the provider name is looked up in the registry
LookupProvider(c) ==
    /\ exec[c].pc = "ingress"
    /\ IF exec[c].req.provider \in KnownProviders
       THEN /\ exec' = [exec EXCEPT ![c].pc = "lookedup"]
            /\ UNCHANGED resp
       ELSE /\ exec' = [exec EXCEPT ![c].pc = "done"]
            /\ resp' = [resp EXCEPT ![c] = LocalError(404, "unknown provider")]
    /\ UNCHANGED <<db, pool, now, ticks, adminOps, traffic, st, srv, adm, bus, dsp, usg, loc, fetch, reg>>

\* the AuthError of a rejected key: its status and body, and the headers
\* the auth provider puts on it, none or a challenge
AuthErrors ==
    {[status |-> 401, body |-> SyntheticBody("unauthorized"), headers |-> h] :
        h \in {{}, {"www-authenticate"}}}

\* auth_error_response: the body, the status and the headers of the error
AuthErrorResponse(err) ==
    [kind |-> "error", status |-> err.status, ra |-> RaNone,
     body |-> err.body, headers |-> err.headers]

\* proxy_handler, second step: the auth guard
Authenticate(c) ==
    /\ exec[c].pc = "lookedup"
    /\ IF Authenticated(exec[c].req.key)
       THEN /\ exec' = [exec EXCEPT ![c].pc = "authed", ![c].auth = adm.auth]
            /\ UNCHANGED resp
       ELSE /\ exec' = [exec EXCEPT ![c].pc = "done"]
            /\ \E err \in AuthErrors :
                  resp' = [resp EXCEPT ![c] = AuthErrorResponse(err)]
    /\ UNCHANGED <<db, pool, now, ticks, adminOps, traffic, st, srv, adm, bus, dsp, usg, loc, fetch, reg>>

\* proxy_handler, third step: the classifier; a classified request is ready
\* for the provider call
ClassifyRequest(c) ==
    /\ exec[c].pc = "authed"
    /\ IF Classifies(exec[c].req.path)
       THEN /\ exec' = [exec EXCEPT ![c].pc = "idle"]
            /\ UNCHANGED resp
       ELSE /\ exec' = [exec EXCEPT ![c].pc = "done"]
            /\ resp' = [resp EXCEPT ![c] = LocalError(400, "unsupported route")]
    /\ UNCHANGED <<db, pool, now, ticks, adminOps, traffic, st, srv, adm, bus, dsp, usg, loc, fetch, reg>>

\* execute returned an error: dispatch propagates it and the handler sends it.
FinishError(c) ==
    /\ exec[c].pc = "fail"
    /\ resp' = [resp EXCEPT ![c] = PassthroughError(exec[c].pass)]
    /\ exec' = [exec EXCEPT ![c].pc = "done"]
    /\ UNCHANGED <<db, pool, now, ticks, adminOps, traffic, st, srv, adm, bus, dsp, usg, loc, fetch, reg>>

(* ------------------------- dispatch/record.rs -------------------------- *)

\* dispatch_native with a JSON answer: record_upstream_and_downstream emits
\* the upstream record, then the downstream record when downstream_meta is
\* set, and the handler sends the body.
FinishNativeJson(c) ==
    /\ exec[c].pc = "ok"
    /\ exec[c].plan = "native"
    /\ exec[c].ok.kind = "json"
    /\ LET e == exec[c]
           up == UpRecord(c, e.ok.cred, e.ok.status, e.ok.body, FALSE)
           down == DownRecord(c, e.ok.status, e.ok.body, FALSE)
       IN /\ traffic' = traffic \o <<up>> \o (IF e.meta THEN <<down>> ELSE <<>>)
          /\ resp' = [resp EXCEPT ![c] =
                        [kind |-> "json", status |-> e.ok.status,
                         ra |-> RaNone, body |-> e.ok.body]]
    /\ exec' = [exec EXCEPT ![c].pc = "done"]
    /\ UNCHANGED <<db, pool, now, ticks, adminOps, st, srv, adm, bus, dsp, usg, loc, fetch, reg>>

(* ------------------ streaming: channels and recorders ------------------ *)

IdleRecorder == [pc |-> "none", got |-> <<>>]

IdleStream ==
    [pc |-> "none", mode |-> "", upSeq |-> <<>>, upEnded |-> FALSE,
     hold |-> NoItem, pending |-> <<>>, outHold |-> NoItem,
     chUp |-> <<>>, chDown |-> <<>>, txUp |-> FALSE, txDown |-> FALSE,
     recUp |-> IdleRecorder, recDown |-> IdleRecorder,
     sentUp |-> <<>>, delivered |-> <<>>, cancelled |-> FALSE,
     waited |-> FALSE]

\* the data payload of an SSE frame
PayloadOf(frame) ==
    CASE frame = "data:A" -> "A"
      [] frame = "data:B" -> "B"
      [] frame = "data:[DONE]" -> "[DONE]"
      [] frame = "data:{" -> "{"
      [] frame = "data:a" -> "a"
      [] frame = "data:b1" -> "b1"
      [] frame = "data:b2" -> "b2"
      [] OTHER -> ""

\* what a recorder keeps of the chunks it received: the payloads that are
\* neither empty nor [DONE], concatenated in order
RECURSIVE BodyOf(_)
BodyOf(chunks) ==
    IF chunks = <<>> THEN <<>>
    ELSE (IF PayloadOf(Head(chunks)) \in {"", "[DONE]"} THEN <<>>
          ELSE <<PayloadOf(Head(chunks))>>) \o BodyOf(Tail(chunks))

\* the downstream frames the transform state yields for one upstream
\* frame; a payload that does not parse yields none
TransformFrames(chunk) ==
    CASE PayloadOf(chunk) = "A" -> <<"data:a">>
      [] PayloadOf(chunk) = "B" -> <<"data:b1", "data:b2">>
      [] OTHER -> <<>>

\* a bounded channel accepts a send when it has room; a send to a channel
\* whose receiver is gone fails at once
SendCompletes(ch, rec) == Len(ch) < ChanCap \/ rec.pc # "run"

\* record_upstream_and_downstream, stream branch: the channel and the
\* recorder task are created and the wrapped stream goes to the client.
FinishNativeStream(c) ==
    /\ exec[c].pc = "ok"
    /\ exec[c].plan = "native"
    /\ exec[c].ok.kind = "stream"
    /\ st.pc = "none"
    /\ st' = [IdleStream EXCEPT !.pc = "fwd", !.mode = "native", !.txUp = TRUE,
                                !.recUp = [pc |-> "run", got |-> <<>>]]
    /\ resp' = [resp EXCEPT ![c] =
                  [kind |-> "stream", status |-> exec[c].ok.status,
                   ra |-> RaNone, body |-> NoBody]]
    /\ exec' = [exec EXCEPT ![c].pc = "done"]
    /\ UNCHANGED <<db, pool, now, ticks, adminOps, traffic, srv, adm, bus, dsp, usg, loc, fetch, reg>>

\* a forwarder that ends the stream when the recorder is gone
ForwardChunkStopOnSendError(s, item) ==
    IF s.recUp.pc = "run"
    THEN [s EXCEPT !.chUp = Append(@, item), !.sentUp = Append(@, item),
                   !.delivered = Append(@, item), !.hold = NoItem]
    ELSE [s EXCEPT !.hold = NoItem]

\* the chunk goes to the recorder channel (the result of the send is
\* ignored) and then to the client
ForwardChunk(s, item) ==
    [s EXCEPT !.chUp = IF s.recUp.pc = "run" THEN Append(@, item) ELSE @,
              !.sentUp = IF s.recUp.pc = "run" THEN Append(@, item) ELSE @,
              !.delivered = Append(@, item),
              !.hold = NoItem]

\* the native forwarder takes the next upstream item: an error item is
\* passed on; a chunk is sent to the recorder and yielded, or waits in
\* `hold` while the channel is full
NativeUpstream(item) ==
    /\ st.pc = "fwd" /\ st.mode = "native"
    /\ st.hold = NoItem /\ ~st.upEnded
    /\ Len(st.upSeq) < MaxChunks
    /\ st' = IF item = "ERR"
             THEN [st EXCEPT !.upSeq = Append(@, item), !.delivered = Append(@, item)]
             ELSE IF SendCompletes(st.chUp, st.recUp)
                  THEN ForwardChunk([st EXCEPT !.upSeq = Append(@, item)], item)
                  ELSE [st EXCEPT !.upSeq = Append(@, item), !.hold = item,
                                  !.waited = TRUE]
    /\ UNCHANGED <<db, pool, now, ticks, adminOps, exec, resp, traffic, srv, adm, bus, dsp, usg, loc, fetch, reg>>

NativeSend ==
    /\ st.pc = "fwd" /\ st.mode = "native"
    /\ st.hold # NoItem
    /\ SendCompletes(st.chUp, st.recUp)
    /\ st' = ForwardChunk(st, st.hold)
    /\ UNCHANGED <<db, pool, now, ticks, adminOps, exec, resp, traffic, srv, adm, bus, dsp, usg, loc, fetch, reg>>

\* the upstream ended: the stream ends and its state, the sender included,
\* is dropped
NativeEof ==
    /\ st.pc = "fwd" /\ st.mode = "native"
    /\ st.hold = NoItem
    /\ st' = [st EXCEPT !.pc = "end", !.upEnded = TRUE, !.txUp = FALSE]
    /\ UNCHANGED <<db, pool, now, ticks, adminOps, exec, resp, traffic, srv, adm, bus, dsp, usg, loc, fetch, reg>>

\* a cancel that also throws away what the channels still hold
CancelStreamDroppingBuffered ==
    /\ st.pc = "fwd"
    /\ st' = [st EXCEPT !.pc = "end", !.cancelled = TRUE,
                        !.txUp = FALSE, !.txDown = FALSE,
                        !.chUp = <<>>, !.chDown = <<>>,
                        !.hold = NoItem, !.outHold = NoItem, !.pending = <<>>]
    /\ UNCHANGED <<db, pool, now, ticks, adminOps, exec, resp, traffic, srv, adm, bus, dsp, usg, loc, fetch, reg>>

\* the client drops the response: the stream state is dropped wherever the
\* forwarder is, and both senders with it
CancelStream ==
    /\ st.pc = "fwd"
    /\ st' = [st EXCEPT !.pc = "end", !.cancelled = TRUE,
                        !.txUp = FALSE, !.txDown = FALSE,
                        !.hold = NoItem, !.outHold = NoItem, !.pending = <<>>]
    /\ UNCHANGED <<db, pool, now, ticks, adminOps, exec, resp, traffic, srv, adm, bus, dsp, usg, loc, fetch, reg>>

\* the upstream recorder receives one chunk
RecvUp ==
    /\ st.recUp.pc = "run"
    /\ st.chUp # <<>>
    /\ st' = [st EXCEPT !.recUp.got = Append(@, Head(st.chUp)), !.chUp = Tail(@)]
    /\ UNCHANGED <<db, pool, now, ticks, adminOps, exec, resp, traffic, srv, adm, bus, dsp, usg, loc, fetch, reg>>

\* the upstream recorder sees the end of its channel and emits: the
\* upstream record, and in a native stream the downstream record after it
FinishUp ==
    /\ st.recUp.pc = "run"
    /\ st.chUp = <<>> /\ ~st.txUp
    /\ LET e == exec[1]
           body == StreamBodyOf(BodyOf(st.recUp.got))
       IN traffic' = traffic \o <<UpRecord(1, e.ok.cred, e.ok.status, body, TRUE)>>
                \o (IF st.mode = "native" /\ e.meta
                    THEN <<DownRecord(1, e.ok.status, body, TRUE)>> ELSE <<>>)
    /\ st' = [st EXCEPT !.recUp.pc = "done"]
    /\ UNCHANGED <<db, pool, now, ticks, adminOps, exec, resp, srv, adm, bus, dsp, usg, loc, fetch, reg>>

\* a recorder task ends without finishing (the runtime shuts down, the
\* task panics): its receiver is dropped
StopUp ==
    /\ st.recUp.pc = "run"
    /\ st' = [st EXCEPT !.recUp.pc = "stopped", !.chUp = <<>>]
    /\ UNCHANGED <<db, pool, now, ticks, adminOps, exec, resp, traffic, srv, adm, bus, dsp, usg, loc, fetch, reg>>

(* ------------------------ dispatch/transform.rs ------------------------ *)

\* a unary transform whose native call still carries downstream_meta
FinishTransformJsonMetaKept(c, xf) ==
    /\ exec[c].pc = "ok"
    /\ exec[c].plan = "transform"
    /\ exec[c].ok.kind = "json"
    /\ LET e == exec[c]
           up == UpRecord(c, e.ok.cred, e.ok.status, e.ok.body, FALSE)
           native == DownRecord(c, e.ok.status, e.ok.body, FALSE)
           down == DownRecord(c, e.ok.status, TransformedBody(e.ok.body), FALSE)
       IN /\ traffic' = traffic \o <<up>>
                \o (IF e.meta THEN <<native>> ELSE <<>>)
                \o (IF xf = "mapped" /\ e.meta THEN <<down>> ELSE <<>>)
          /\ resp' = [resp EXCEPT ![c] =
                IF xf = "mapped"
                THEN [kind |-> "json", status |-> e.ok.status, ra |-> RaNone,
                      body |-> TransformedBody(e.ok.body)]
                ELSE PassthroughError(ServiceUnavailable(xf))]
    /\ exec' = [exec EXCEPT ![c].pc = "done"]
    /\ UNCHANGED <<db, pool, now, ticks, adminOps, st, srv, adm, bus, dsp, usg, loc, fetch, reg>>

\* a unary transform that blames the credential for a transform failure
FinishTransformJsonMarking(c, xf) ==
    /\ exec[c].pc = "ok"
    /\ exec[c].plan = "transform"
    /\ exec[c].ok.kind = "json"
    /\ LET e == exec[c]
           up == UpRecord(c, e.ok.cred, e.ok.status, e.ok.body, FALSE)
           down == DownRecord(c, e.ok.status, TransformedBody(e.ok.body), FALSE)
       IN /\ traffic' = traffic \o <<up>>
                \o (IF xf = "mapped" /\ e.meta THEN <<down>> ELSE <<>>)
          /\ resp' = [resp EXCEPT ![c] =
                IF xf = "mapped"
                THEN [kind |-> "json", status |-> e.ok.status, ra |-> RaNone,
                      body |-> TransformedBody(e.ok.body)]
                ELSE PassthroughError(ServiceUnavailable(xf))]
    /\ exec' = [exec EXCEPT ![c].pc = "done"]
    /\ pool' = IF xf = "mapped" THEN pool
               ELSE ApplyMark(pool, exec[c].ok.cred,
                              NetworkFailure(exec[c].scope).mark, now)
    /\ UNCHANGED <<db, now, ticks, adminOps, st, srv, adm, bus, dsp, usg, loc, fetch, reg>>

\* the outcomes of parsing the upstream body, mapping it and serializing
\* the mapped value
TransformOutcomes == {"mapped", "parse_error", "serialize_error"}

\* a unary transform: record_upstream_only, then transform_json_response
\* parses, maps, serializes and records downstream; a parse or serialize
\* failure is a 503
FinishTransformJson(c, xf) ==
    /\ exec[c].pc = "ok"
    /\ exec[c].plan = "transform"
    /\ exec[c].ok.kind = "json"
    /\ LET e == exec[c]
           up == UpRecord(c, e.ok.cred, e.ok.status, e.ok.body, FALSE)
           down == DownRecord(c, e.ok.status, TransformedBody(e.ok.body), FALSE)
       IN /\ traffic' = traffic \o <<up>>
                \o (IF xf = "mapped" /\ e.meta THEN <<down>> ELSE <<>>)
          /\ resp' = [resp EXCEPT ![c] =
                IF xf = "mapped"
                THEN [kind |-> "json", status |-> e.ok.status, ra |-> RaNone,
                      body |-> TransformedBody(e.ok.body)]
                ELSE PassthroughError(ServiceUnavailable(xf))]
    /\ exec' = [exec EXCEPT ![c].pc = "done"]
    /\ UNCHANGED <<db, pool, now, ticks, adminOps, st, srv, adm, bus, dsp, usg, loc, fetch, reg>>

\* transform_claude_stream / transform_gemini_stream: two channels, an
\* upstream recorder task and a downstream recorder task
FinishTransformStream(c) ==
    /\ exec[c].pc = "ok"
    /\ exec[c].plan = "transform"
    /\ exec[c].ok.kind = "stream"
    /\ st.pc = "none"
    /\ st' = [IdleStream EXCEPT !.pc = "fwd", !.mode = "transform",
                                !.txUp = TRUE, !.txDown = TRUE,
                                !.recUp = [pc |-> "run", got |-> <<>>],
                                !.recDown = [pc |-> "run", got |-> <<>>]]
    /\ resp' = [resp EXCEPT ![c] =
                  [kind |-> "stream", status |-> exec[c].ok.status,
                   ra |-> RaNone, body |-> NoBody]]
    /\ exec' = [exec EXCEPT ![c].pc = "done"]
    /\ UNCHANGED <<db, pool, now, ticks, adminOps, traffic, srv, adm, bus, dsp, usg, loc, fetch, reg>>

\* a forwarder that yields an error item for a payload that does not parse
TakeChunkFailingOnMalformed(s, item) ==
    [s EXCEPT !.chUp = IF s.recUp.pc = "run" THEN Append(@, item) ELSE @,
              !.sentUp = IF s.recUp.pc = "run" THEN Append(@, item) ELSE @,
              !.pending = @ \o (IF PayloadOf(item) \in {"A", "B", "", "[DONE]"}
                                THEN TransformFrames(item) ELSE <<"ERR">>),
              !.hold = NoItem]

\* the upstream chunk goes to the upstream channel and through the parser
\* and the transform into `pending`
TakeChunk(s, item) ==
    [s EXCEPT !.chUp = IF s.recUp.pc = "run" THEN Append(@, item) ELSE @,
              !.sentUp = IF s.recUp.pc = "run" THEN Append(@, item) ELSE @,
              !.pending = @ \o TransformFrames(item),
              !.hold = NoItem]

\* a forwarder that yields a frame without sending it to the recorder
EmitFrameUnrecorded(s, frame) ==
    [s EXCEPT !.delivered = Append(@, frame), !.outHold = NoItem]

\* a forwarder that yields a frame only when the downstream recorder took it
EmitFrameIfRecorded(s, frame) ==
    [s EXCEPT !.chDown = IF s.recDown.pc = "run" THEN Append(@, frame) ELSE @,
              !.delivered = IF s.recDown.pc = "run" THEN Append(@, frame) ELSE @,
              !.outHold = NoItem]

\* the frame goes to the downstream channel and then to the client
EmitFrame(s, frame) ==
    [s EXCEPT !.chDown = IF s.recDown.pc = "run" THEN Append(@, frame) ELSE @,
              !.delivered = Append(@, frame),
              !.outHold = NoItem]

\* with nothing pending, the forwarder takes the next upstream item
TransformUpstream(item) ==
    /\ st.pc = "fwd" /\ st.mode = "transform"
    /\ st.pending = <<>> /\ st.hold = NoItem /\ st.outHold = NoItem
    /\ ~st.upEnded
    /\ Len(st.upSeq) < MaxChunks
    /\ st' = IF item = "ERR"
             THEN [st EXCEPT !.upSeq = Append(@, item), !.delivered = Append(@, item)]
             ELSE IF SendCompletes(st.chUp, st.recUp)
                  THEN TakeChunk([st EXCEPT !.upSeq = Append(@, item)], item)
                  ELSE [st EXCEPT !.upSeq = Append(@, item), !.hold = item,
                                  !.waited = TRUE]
    /\ UNCHANGED <<db, pool, now, ticks, adminOps, exec, resp, traffic, srv, adm, bus, dsp, usg, loc, fetch, reg>>

TransformSendUp ==
    /\ st.pc = "fwd" /\ st.mode = "transform"
    /\ st.hold # NoItem
    /\ SendCompletes(st.chUp, st.recUp)
    /\ st' = TakeChunk(st, st.hold)
    /\ UNCHANGED <<db, pool, now, ticks, adminOps, exec, resp, traffic, srv, adm, bus, dsp, usg, loc, fetch, reg>>

\* the front of `pending` is sent to the downstream channel and yielded,
\* or waits in `outHold` while that channel is full
TransformEmit ==
    /\ st.pc = "fwd" /\ st.mode = "transform"
    /\ st.pending # <<>> /\ st.hold = NoItem /\ st.outHold = NoItem
    /\ st' = IF SendCompletes(st.chDown, st.recDown)
             THEN EmitFrame([st EXCEPT !.pending = Tail(@)], Head(st.pending))
             ELSE [st EXCEPT !.pending = Tail(@), !.outHold = Head(st.pending),
                             !.waited = TRUE]
    /\ UNCHANGED <<db, pool, now, ticks, adminOps, exec, resp, traffic, srv, adm, bus, dsp, usg, loc, fetch, reg>>

TransformSendDown ==
    /\ st.pc = "fwd" /\ st.mode = "transform"
    /\ st.outHold # NoItem
    /\ SendCompletes(st.chDown, st.recDown)
    /\ st' = EmitFrame(st, st.outHold)
    /\ UNCHANGED <<db, pool, now, ticks, adminOps, exec, resp, traffic, srv, adm, bus, dsp, usg, loc, fetch, reg>>

\* the upstream ended with nothing pending: the stream ends and both
\* senders are dropped
TransformEof ==
    /\ st.pc = "fwd" /\ st.mode = "transform"
    /\ st.pending = <<>> /\ st.hold = NoItem /\ st.outHold = NoItem
    /\ st' = [st EXCEPT !.pc = "end", !.upEnded = TRUE,
                        !.txUp = FALSE, !.txDown = FALSE]
    /\ UNCHANGED <<db, pool, now, ticks, adminOps, exec, resp, traffic, srv, adm, bus, dsp, usg, loc, fetch, reg>>

RecvDown ==
    /\ st.recDown.pc = "run"
    /\ st.chDown # <<>>
    /\ st' = [st EXCEPT !.recDown.got = Append(@, Head(st.chDown)), !.chDown = Tail(@)]
    /\ UNCHANGED <<db, pool, now, ticks, adminOps, exec, resp, traffic, srv, adm, bus, dsp, usg, loc, fetch, reg>>

\* the downstream recorder sees the end of its channel and emits the
\* downstream record when downstream_meta is set
FinishDown ==
    /\ st.recDown.pc = "run"
    /\ st.chDown = <<>> /\ ~st.txDown
    /\ traffic' = traffic \o
          (IF exec[1].meta
           THEN <<DownRecord(1, exec[1].ok.status,
                             StreamBodyOf(BodyOf(st.recDown.got)), TRUE)>>
           ELSE <<>>)
    /\ st' = [st EXCEPT !.recDown.pc = "done"]
    /\ UNCHANGED <<db, pool, now, ticks, adminOps, exec, resp, srv, adm, bus, dsp, usg, loc, fetch, reg>>

StopDown ==
    /\ st.recDown.pc = "run"
    /\ st' = [st EXCEPT !.recDown.pc = "stopped", !.chDown = <<>>]
    /\ UNCHANGED <<db, pool, now, ticks, adminOps, exec, resp, traffic, srv, adm, bus, dsp, usg, loc, fetch, reg>>

Tick ==
    /\ ticks < MaxTicks
    /\ now' = now + 1
    /\ ticks' = ticks + 1
    /\ UNCHANGED <<db, pool, adminOps, exec, resp, traffic, st, srv, adm, bus, dsp, usg, loc, fetch, reg>>

(* ----------------------------- initial states -------------------------- *)

CredRow(id, w, en) ==
    [id |-> id, provider_id |-> ThisProvider, weight |-> w, enabled |-> en]

DisRow(id, kind, value, level, until) ==
    [credential_id |-> id, scope_kind |-> kind, scope_value |-> value,
     level |-> level, until_at |-> until, reason |-> "admin",
     updated_at |-> StartTime - 2]

\* a stored disallow whose times are before the epoch
OldDisRow(id) ==
    [DisRow(id, "model", "m1", "cooldown", -5) EXCEPT !.updated_at = -7]

\* what a stored credential may look like; "absent" is a credential that
\* is not stored
CredProfiles ==
    {[present |-> TRUE, weight |-> 10, enabled |-> TRUE],
     [present |-> TRUE, weight |-> 5, enabled |-> TRUE],
     [present |-> TRUE, weight |-> 10, enabled |-> FALSE],
     [present |-> FALSE, weight |-> 0, enabled |-> FALSE]}

RECURSIVE RowsOf(_, _)
RowsOf(prof, ids) ==
    IF ids = {} THEN <<>>
    ELSE LET id == CHOOSE i \in ids : \A j \in ids : i <= j
         IN (IF prof[id].present
             THEN <<CredRow(id, prof[id].weight, prof[id].enabled)>>
             ELSE <<>>) \o RowsOf(prof, ids \ {id})

DisRowChoices(ids) ==
    {<<>>} \cup
    {<<DisRow(id, "all_models", "", "dead", NoUntil)>> : id \in ids} \cup
    {<<DisRow(id, "model", "m1", "cooldown", StartTime - 1)>> : id \in ids} \cup
    {<<DisRow(id, "model", "m1", "cooldown", StartTime + 1)>> : id \in ids} \cup
    {<<DisRow(id, "all_models", "", "cooldown", StartTime + 1)>> : id \in ids}

(* ---------------- main.rs and admin.rs: PUT /config -------------------- *)

SqliteDsns == {"sqlite:a", "sqlite:b"}

\* ensure_sqlite_dsn: only sqlite DSNs are accepted
ValidDsn(dsn) == dsn \in SqliteDsns

\* the forward-proxy URL of the configuration; "" stands for none
NoProxy == ""

InitialConfig ==
    [dsn |-> "sqlite:a", host |-> "127.0.0.1", port |-> "8080", proxy |-> NoProxy,
     admin_key |-> "K"]

BindOf(config) == <<config.host, config.port>>

\* the api_keys table of the database behind the second DSN, on which no
\* process has run ensure_admin_user
OtherKeys ==
    [k \in {"k-valid"} |-> [key_id |-> 1, user_id |-> 1, enabled |-> TRUE]]

\* the tables of a database: `keys` is the api_keys table by key value,
\* `users` the users table by id, `providers` the providers table by id,
\* `config` the global_config row
NoTables ==
    [credentials |-> <<>>, disallow |-> <<>>, keys |-> <<>>, users |-> <<>>,
     providers |-> <<>>, config |-> InitialConfig]

\* the database of the start-up DSN once run has called ensure_providers,
\* upsert_global_config and ensure_admin_user, with the credential and
\* disallow rows `rows`
TablesOf(rows) ==
    [credentials |-> rows.credentials, disallow |-> rows.disallow,
     keys |-> AuthKeys, users |-> InitialUsers, providers |-> InitialProviders,
     config |-> InitialConfig]

\* the database behind the second DSN: one credential and no disallow row
OtherTables ==
    [credentials |-> <<CredRow(3, 5, TRUE)>>, disallow |-> <<>>,
     keys |-> OtherKeys, users |-> [id \in {1} |-> "u1"],
     providers |-> InitialProviders, config |-> InitialConfig]

\* two enabled credentials of this provider and no disallow row
TwoRows ==
    [credentials |-> <<CredRow(1, 10, TRUE), CredRow(2, 5, TRUE)>>, disallow |-> <<>>]

\* the databases by DSN when the process has started on `rows`
StoreOf(rows) ==
    [d \in SqliteDsns |-> IF d = InitialConfig.dsn THEN TablesOf(rows) ELSE OtherTables]

\* what a storage call answers: its result, or an error
StorageIo == {"ok", "err"}

\* the put_config calls that can be in flight together
PutHandlers == {1, 2}

\* a put_config that has not started: `payload` is the configuration of
\* its body, `storage` the DSN of the storage handle, `current_dsn` the DSN
\* and `was` the configuration that it read, one after the other, at its
\* start, `desired` the configuration it is to install, `eff` the DSN of
\* its effective storage, `connected` says that it has connected a new
\* storage, `snap` is the snapshot it has loaded, `steps` are the writes to
\* the in-memory state it has made, and `changed` says that one of them
\* changed a value
IdlePut ==
    [pc |-> "idle", payload |-> InitialConfig, desired |-> InitialConfig,
     was |-> InitialConfig, current_dsn |-> "",
     storage |-> "", eff |-> "", dsn_changed |-> FALSE, bind_changed |-> FALSE, connected |-> FALSE,
     snap |-> NoTables, steps |-> {}, changed |-> FALSE, status |-> 0]

\* the process after start-up: the storage handle is on the DSN of the
\* configuration, the watch channel holds the bind address, and serve_loop
\* has bound it and accepts; `proxy` is the cell of the core state that run
\* fills from the configuration; `put` are the put_config calls in flight
InitialServer ==
    [config |-> InitialConfig,
     handleDsn |-> InitialConfig.dsn,
     handles |-> 0,
     bind |-> BindOf(InitialConfig),
     sends |-> 0,
     rebuilds |-> 0,
     authFrom |-> InitialConfig.dsn,
     puts |-> 0,
     put |-> [p \in PutHandlers |-> IdlePut],
     current |-> BindOf(InitialConfig),
     phase |-> "accepting",
     inflight |-> 0,
     refused |-> FALSE,
     outlived |-> FALSE,
     proxy |-> InitialConfig.proxy]

\* the tables of the database that the storage handle of the admin state
\* is connected to
Tables == db[srv.handleDsn]

\* a put_config that sets the configuration before it calls the storage
RejectedKeepingConfig(p, h, status) ==
    [srv EXCEPT !.config = h.desired,
                !.put[p] = [h EXCEPT !.pc = "done", !.status = status]]

\* the process after put_config returned with an error status
Rejected(p, h, status) ==
    [srv EXCEPT !.put[p] = [h EXCEPT !.pc = "done", !.status = status]]

\* the process after a storage call of put_config: the call failed and the
\* handler answers `status`, or the handler goes on to its next call
AfterCall(p, io, status, next) ==
    IF io = "err" THEN Rejected(p, srv.put[p], status)
    ELSE [srv EXCEPT !.put[p].pc = next]

\* put_config with an admin key that passed require_admin: state.storage()
\* takes a clone of the storage handle under the lock of the handle
PutConfigStorage(p, payload) ==
    /\ srv.puts < MaxConfigPuts
    /\ srv.put[p].pc \in {"idle", "done"}
    /\ srv' = [srv EXCEPT !.puts = @ + 1,
                          !.put[p] = [IdlePut EXCEPT !.pc = "dsn", !.payload = payload,
                                                     !.storage = srv.handleDsn]]
    /\ UNCHANGED <<db, pool, now, ticks, adminOps, exec, resp, traffic, st, adm, bus, dsp, usg, loc, fetch, reg>>

\* put_config: state.dsn() reads the DSN of the configuration under the
\* lock of the configuration
PutConfigDsn(p) ==
    /\ srv.put[p].pc = "dsn"
    /\ srv' = [srv EXCEPT !.put[p].pc = "config", !.put[p].current_dsn = srv.config.dsn]
    /\ UNCHANGED <<db, pool, now, ticks, adminOps, exec, resp, traffic, st, adm, bus, dsp, usg, loc, fetch, reg>>

\* a put_config that takes every DSN for a changed one
PutConfigAlwaysReconnect(p) ==
    /\ srv.put[p].pc = "config"
    /\ LET g == srv.put[p]
           desired == [g.payload EXCEPT !.dsn = IF @ = "" THEN g.current_dsn ELSE @]
           h == [g EXCEPT
                   !.desired = desired, !.was = srv.config,
                   !.dsn_changed = TRUE,
                   !.bind_changed = desired.host # srv.config.host
                                    \/ desired.port # srv.config.port,
                   !.eff = desired.dsn]
       IN srv' = IF ~ValidDsn(desired.dsn) THEN Rejected(p, h, 400)
                 ELSE [srv EXCEPT !.put[p] = [h EXCEPT !.pc = "connect"]]
    /\ UNCHANGED <<db, pool, now, ticks, adminOps, exec, resp, traffic, st, adm, bus, dsp, usg, loc, fetch, reg>>

\* put_config from state.config() up to its first storage call: it reads
\* the configuration under the lock of the configuration; an empty DSN in
\* the payload stands for the DSN that was read; a DSN that differs from
\* the DSN that was read is validated and is to be connected, any other
\* keeps the storage handle that was read; host and port are compared with
\* those of the configuration that was read
PutConfig(p) ==
    /\ srv.put[p].pc = "config"
    /\ LET g == srv.put[p]
           desired == [g.payload EXCEPT !.dsn = IF @ = "" THEN g.current_dsn ELSE @]
           dsn_changed == desired.dsn # g.current_dsn
           h == [g EXCEPT
                   !.desired = desired, !.was = srv.config,
                   !.dsn_changed = dsn_changed,
                   !.bind_changed = desired.host # srv.config.host
                                    \/ desired.port # srv.config.port,
                   !.eff = IF dsn_changed THEN desired.dsn ELSE g.storage]
       IN srv' = IF desired.dsn = "" \/ (dsn_changed /\ ~ValidDsn(desired.dsn))
                 THEN Rejected(p, h, 400)
                 ELSE [srv EXCEPT !.put[p] =
                         [h EXCEPT !.pc = IF dsn_changed THEN "connect"
                                          ELSE "upsert_global_config"]]
    /\ UNCHANGED <<db, pool, now, ticks, adminOps, exec, resp, traffic, st, adm, bus, dsp, usg, loc, fetch, reg>>

\* put_config: TrafficStorage::connect(&desired.dsn).await
ConnectStorage(p, io) ==
    /\ srv.put[p].pc = "connect"
    /\ srv' = IF io = "err" THEN Rejected(p, srv.put[p], 400)
              ELSE [srv EXCEPT !.put[p].pc = "sync", !.put[p].connected = TRUE]
    /\ UNCHANGED <<db, pool, now, ticks, adminOps, exec, resp, traffic, st, adm, bus, dsp, usg, loc, fetch, reg>>

\* put_config: new_storage.sync().await
SyncStorage(p, io) ==
    /\ srv.put[p].pc = "sync"
    /\ srv' = AfterCall(p, io, 500, "upsert_global_config")
    /\ UNCHANGED <<db, pool, now, ticks, adminOps, exec, resp, traffic, st, adm, bus, dsp, usg, loc, fetch, reg>>

\* put_config: effective_storage.upsert_global_config(..).await writes the
\* desired configuration to the global_config row of the effective storage
UpsertGlobalConfig(p, io) ==
    /\ srv.put[p].pc = "upsert_global_config"
    /\ srv' = AfterCall(p, io, 500, "ensure_admin_user")
    /\ db' = IF io = "err" THEN db
             ELSE [db EXCEPT ![srv.put[p].eff].config = srv.put[p].desired]
    /\ UNCHANGED <<pool, now, ticks, adminOps, exec, resp, traffic, st, adm, bus, dsp, usg, loc, fetch, reg>>

\* put_config: effective_storage.ensure_admin_user(..).await, first
\* statement: the users row of id 0 is inserted or updated
EnsureAdminUser(p, io) ==
    /\ srv.put[p].pc = "ensure_admin_user"
    /\ srv' = AfterCall(p, io, 500, "ensure_admin_key")
    /\ db' = IF io = "err" THEN db
             ELSE [db EXCEPT ![srv.put[p].eff].users = With(@, 0, "admin")]
    /\ UNCHANGED <<pool, now, ticks, adminOps, exec, resp, traffic, st, adm, bus, dsp, usg, loc, fetch, reg>>

\* the api_keys table after the row of id 0 was inserted, or updated to
\* the key value `admin_key`: user 0, enabled
WithAdminKey(keys, admin_key) ==
    LET rest == {k \in DOMAIN keys : keys[k].key_id # AdminKeyRow.key_id}
    IN [k \in rest \cup {admin_key} |-> IF k = admin_key THEN AdminKeyRow ELSE keys[k]]

\* put_config: ensure_admin_user, second statement: the api_keys row of id
\* 0 is inserted or updated; key_value is unique, so the statement fails
\* when another row holds the admin key
EnsureAdminKey(p, io) ==
    /\ srv.put[p].pc = "ensure_admin_key"
    /\ LET h == srv.put[p]
           keys == db[h.eff].keys
           taken == /\ h.desired.admin_key \in DOMAIN keys
                    /\ keys[h.desired.admin_key].key_id # AdminKeyRow.key_id
       IN IF io = "err" \/ taken
          THEN /\ srv' = Rejected(p, h, 500)
               /\ db' = db
          ELSE /\ srv' = [srv EXCEPT !.put[p].pc = "load_snapshot"]
               /\ db' = [db EXCEPT ![h.eff].keys = WithAdminKey(@, h.desired.admin_key)]
    /\ UNCHANGED <<pool, now, ticks, adminOps, exec, resp, traffic, st, adm, bus, dsp, usg, loc, fetch, reg>>

\* put_config: effective_storage.load_snapshot().await reads every table
LoadConfigSnapshot(p, io) ==
    /\ srv.put[p].pc = "load_snapshot"
    /\ srv' = IF io = "err" THEN Rejected(p, srv.put[p], 500)
              ELSE [srv EXCEPT !.put[p].pc = "replace_snapshot",
                               !.put[p].snap = db[srv.put[p].eff]]
    /\ UNCHANGED <<db, pool, now, ticks, adminOps, exec, resp, traffic, st, adm, bus, dsp, usg, loc, fetch, reg>>

\* the put_config call after one of its writes to the in-memory state
Wrote(h, step, changes, next) ==
    [h EXCEPT !.pc = next, !.steps = @ \cup {step}, !.changed = @ \/ changes]

\* the RwLock of the storage handle or of the configuration as a write
\* finds it: write() answers Err when the lock is poisoned
LockStates == {"ok", "poisoned"}

\* no handler holds the write lock of provider_names: update_provider_map
\* and remove_provider_map keep it while they write provider_ids
NamesFree ==
    \A a \in Admins : adm.h[a].pc \notin {"update_provider_ids", "remove_provider_ids"}

\* put_config, apply_snapshot: state.auth.replace_snapshot swaps the auth
\* map for the one built from the loaded snapshot
ApplySnapshotAuth(p) ==
    /\ srv.put[p].pc = "replace_snapshot"
    /\ LET h == srv.put[p]
           auth == BuildAuthSnapshot(h.snap)
           changes == \/ adm.auth # auth.keys_by_value
                      \/ adm.users_by_id # auth.users_by_id
                      \/ srv.authFrom # h.eff
       IN /\ adm' = [adm EXCEPT !.auth = auth.keys_by_value,
                                !.users_by_id = auth.users_by_id]
          /\ srv' = [srv EXCEPT
                !.authFrom = h.eff,
                !.put[p] = Wrote(h, "replace_snapshot", changes, "apply_pools")]
    /\ UNCHANGED <<db, pool, now, ticks, adminOps, exec, resp, traffic, st, bus, dsp, usg, loc, fetch, reg>>

\* put_config, apply_snapshot: state.registry.apply_pools swaps the pools
\* of the providers of the loaded snapshot
ApplySnapshotPools(p) ==
    /\ srv.put[p].pc = "apply_pools"
    /\ LET h == srv.put[p]
           pools == BuildProviderPools(h.snap, h.snap.providers)
       IN /\ pool' = Applied(pools, ThisName, pool)
          /\ reg' = [reg EXCEPT !.other = Applied(pools, OtherName, @)]
          /\ srv' = [srv EXCEPT
                !.rebuilds = @ + 1,
                !.put[p] = Wrote(h, "apply_pools", TRUE, "provider_ids")]
    /\ adminOps' = adminOps + 1
    /\ UNCHANGED <<db, now, ticks, exec, resp, traffic, st, adm, bus, dsp, usg, loc, fetch>>

\* put_config, apply_snapshot: provider_ids is replaced by the map built
\* from the loaded snapshot
ApplySnapshotIds(p) ==
    /\ srv.put[p].pc = "provider_ids"
    /\ LET h == srv.put[p]
           ids == BuildProviderIdMap(h.snap.providers)
       IN /\ reg' = [reg EXCEPT !.ids = ids]
          /\ srv' = [srv EXCEPT
                !.put[p] = Wrote(h, "provider_ids", reg.ids # ids, "provider_names")]
    /\ UNCHANGED <<db, pool, now, ticks, adminOps, exec, resp, traffic, st, adm, bus, dsp, usg, loc, fetch>>

\* put_config, apply_snapshot: provider_names is replaced by the map built
\* from the loaded snapshot; then put_config goes on to set_storage when
\* the DSN had changed, else to set_config
ApplySnapshotNames(p) ==
    /\ srv.put[p].pc = "provider_names"
    /\ NamesFree
    /\ LET h == srv.put[p]
       IN /\ reg' = [reg EXCEPT !.names = h.snap.providers]
          /\ srv' = [srv EXCEPT
                !.put[p] = Wrote(h, "provider_names", reg.names # h.snap.providers,
                                 IF h.dsn_changed THEN "set_storage" ELSE "set_config")]
    /\ UNCHANGED <<db, pool, now, ticks, adminOps, exec, resp, traffic, st, adm, bus, dsp, usg, loc, fetch>>

\* put_config: state.set_storage(effective_storage) replaces the storage
\* handle by the one that was connected; 500 on a poisoned lock
SetStorage(p, lock) ==
    /\ srv.put[p].pc = "set_storage"
    /\ LET h == srv.put[p]
       IN srv' = IF lock = "poisoned" THEN Rejected(p, h, 500)
                 ELSE [srv EXCEPT
                         !.handles = @ + 1,
                         !.handleDsn = h.eff,
                         !.put[p] = Wrote(h, "set_storage", TRUE, "set_config")]
    /\ UNCHANGED <<db, pool, now, ticks, adminOps, exec, resp, traffic, st, adm, bus, dsp, usg, loc, fetch, reg>>

\* put_config: state.set_config(desired) replaces the configuration; 500
\* on a poisoned lock; with host and port as they were the call answers
\* 200, else it goes on to the bind send
SetConfig(p, lock) ==
    /\ srv.put[p].pc = "set_config"
    /\ LET h == srv.put[p]
           set == Wrote(h, "set_config", srv.config # h.desired,
                        IF h.bind_changed THEN "bind_send" ELSE "done")
       IN srv' = IF lock = "poisoned" THEN Rejected(p, h, 500)
                 ELSE [srv EXCEPT
                         !.config = h.desired,
                         !.put[p] = IF h.bind_changed THEN set
                                    ELSE [set EXCEPT !.status = 200]]
    /\ UNCHANGED <<db, pool, now, ticks, adminOps, exec, resp, traffic, st, adm, bus, dsp, usg, loc, fetch, reg>>

\* the receiver of the watch channel is alive: serve_loop owns it and
\* drops it when it returns
BindReceiverAlive == srv.phase \notin {"exited", "failed"}

\* put_config: state.bind_tx.send(bind) puts the new address on the watch
\* channel and the call answers 200; with the receiver gone the send fails
\* and the call answers 500 "bind channel closed"
BindSend(p) ==
    /\ srv.put[p].pc = "bind_send"
    /\ LET h == srv.put[p]
       IN srv' = IF ~BindReceiverAlive THEN Rejected(p, h, 500)
                 ELSE [srv EXCEPT
                         !.bind = BindOf(h.desired),
                         !.sends = @ + 1,
                         !.put[p] = [Wrote(h, "bind_send", TRUE, "done")
                                       EXCEPT !.status = 200]]
    /\ UNCHANGED <<db, pool, now, ticks, adminOps, exec, resp, traffic, st, adm, bus, dsp, usg, loc, fetch, reg>>

\* a client connects to an address: the connection is accepted when the
\* serve loop is accepting on that address, and a stream begins on it
Connect(addr) ==
    /\ srv.inflight < MaxStreams
    /\ IF srv.phase = "accepting" /\ srv.current = addr
       THEN srv' = [srv EXCEPT !.inflight = @ + 1, !.refused = FALSE]
       ELSE srv' = [srv EXCEPT !.refused = TRUE]
    /\ UNCHANGED <<db, pool, now, ticks, adminOps, exec, resp, traffic, st, adm, bus, dsp, usg, loc, fetch, reg>>

\* a stream in flight ends and its connection closes
StreamEnds ==
    /\ srv.inflight > 0
    /\ srv' = [srv EXCEPT !.inflight = @ - 1,
                          !.outlived = @ \/ srv.phase = "draining"]
    /\ UNCHANGED <<db, pool, now, ticks, adminOps, exec, resp, traffic, st, adm, bus, dsp, usg, loc, fetch, reg>>

\* the shutdown future of serve_loop sees a watch value that differs from
\* the bound address: the server stops accepting and its listener closes
ShutdownSignal ==
    /\ srv.phase = "accepting"
    /\ srv.bind # srv.current
    /\ srv' = [srv EXCEPT !.phase = "draining"]
    /\ UNCHANGED <<db, pool, now, ticks, adminOps, exec, resp, traffic, st, adm, bus, dsp, usg, loc, fetch, reg>>

\* the graceful shutdown is over when no connection is left and serve
\* returns; serve_loop then reads the watch value, returns Ok when it
\* equals the address it served, and takes it for the address to bind
\* otherwise
NextBind ==
    /\ srv.phase = "draining"
    /\ srv.inflight = 0
    /\ srv' = IF srv.bind = srv.current THEN [srv EXCEPT !.phase = "exited"]
              ELSE [srv EXCEPT !.phase = "binding", !.current = srv.bind]
    /\ UNCHANGED <<db, pool, now, ticks, adminOps, exec, resp, traffic, st, adm, bus, dsp, usg, loc, fetch, reg>>

\* serve_loop: TcpListener::bind(&current).await of the address that was
\* read; `bound` says that it succeeded.  A bind that fails makes
\* serve_loop return the error, which ends run and the process.
Rebind(bound) ==
    /\ srv.phase = "binding"
    /\ srv' = [srv EXCEPT !.phase = IF bound THEN "accepting" ELSE "failed"]
    /\ UNCHANGED <<db, pool, now, ticks, adminOps, exec, resp, traffic, st, adm, bus, dsp, usg, loc, fetch, reg>>

(* ------- provider/claudecode/usage.rs, provider/codex/usage.rs --------- *)

\* usage fetches of one run
MaxFetches == 2

NoFetch ==
    [pc |-> "idle", n |-> 0, refresh_token |-> FALSE, sends |-> 0,
     answers |-> 0, refreshes |-> 0, first |-> 0, status |-> 0,
     ra |-> RaNone, read |-> FALSE, result |-> "none", mark |-> NoMark]

UsageStatuses == {200, 401, 403, 429, 500}

\* what the usage endpoint does with one request: the request fails on
\* the network, or an answer comes with a status and a Retry-After header
UsageAnswers ==
    {[kind |-> "senderr", status |-> 0, ra |-> RaNone]}
    \cup {[kind |-> "answer", status |-> s, ra |-> RaNone] : s \in UsageStatuses}
    \cup {[kind |-> "answer", status |-> 429, ra |-> [k |-> "secs", v |-> 5]]}

\* the attempt of one credential has ended with an AttemptFailure
FetchFailed(f, mark) == [f EXCEPT !.pc = "failed", !.result = "failed", !.mark = mark]

\* pool.execute calls the closure for the next credential; ensure_tokens
\* gives its tokens, with or without a refresh token (from the token cache,
\* else from the credential), or the attempt fails there
EnsureTokens ==
    /\ fetch.pc \in {"idle", "failed", "done"}
    /\ fetch.n < MaxFetches
    /\ \E tokens \in {"none", "access", "access+refresh"} :
          fetch' = IF tokens = "none"
                   THEN FetchFailed([NoFetch EXCEPT !.n = fetch.n + 1],
                                    InvalidCredential(AllModels, "missing access_token").mark)
                   ELSE [NoFetch EXCEPT !.pc = "send", !.n = fetch.n + 1,
                                        !.refresh_token = (tokens = "access+refresh")]
    /\ UNCHANGED <<db, pool, now, ticks, adminOps, exec, resp, traffic, st, srv, adm, bus, dsp, usg, loc, reg>>

\* a 401 or 403 is answered by a refresh whether or not the credential
\* has a refresh token
AfterFirstAnswerAlwaysRefresh(f, status) ==
    IF status \in {401, 403} THEN "refresh" ELSE "read"

\* the branch after the first answer: a 401 or 403 with a refresh token at
\* hand goes to refresh_access_token, everything else to the reading of
\* the answer
AfterFirstAnswer(f, status) ==
    IF status \in {401, 403} /\ f.refresh_token THEN "refresh" ELSE "read"

\* what ends an attempt before a request is sent: shared_client fails,
\* the credential has no account_id (codex), or the access token is no
\* legal header value (build_usage_headers, build_codex_json_headers)
FailedBeforeSend(f, why) ==
    CASE why = "noaccount" ->
            FetchFailed(f, InvalidCredential(AllModels, "missing account_id").mark)
      [] OTHER -> FetchFailed(f, NoMark)

\* the first request: the client and the headers are built, then
\* send_with_logging(..).await?
SendUsage ==
    /\ fetch.pc = "send"
    /\ \/ \E why \in {"noaccount", "clienterr", "badheader"} :
             fetch' = FailedBeforeSend(fetch, why)
       \/ \E o \in UsageAnswers :
             fetch' = IF o.kind = "senderr"
                      THEN FetchFailed([fetch EXCEPT !.sends = @ + 1],
                                       NetworkFailure(AllModels).mark)
                      ELSE [fetch EXCEPT !.sends = @ + 1, !.answers = @ + 1,
                                         !.first = o.status,
                                         !.status = o.status, !.ra = o.ra,
                                         !.pc = AfterFirstAnswer(fetch, o.status)]
    /\ UNCHANGED <<db, pool, now, ticks, adminOps, exec, resp, traffic, st, srv, adm, bus, dsp, usg, loc, reg>>

\* refresh::refresh_access_token(..).await?: a new access token, or the
\* attempt fails (marked dead when the token endpoint answers 401)
RefreshAccessToken ==
    /\ fetch.pc = "refresh"
    /\ \E r \in {"ok", "unauthorized", "error"} :
          fetch' = CASE r = "ok" ->
                          [fetch EXCEPT !.refreshes = @ + 1, !.pc = "retry"]
                     [] r = "unauthorized" ->
                          FetchFailed([fetch EXCEPT !.refreshes = @ + 1],
                                      [scope |-> AllModels, level |-> "Dead",
                                       duration |-> NoDur,
                                       reason |-> "refresh_token_invalid"])
                     [] OTHER ->
                          FetchFailed([fetch EXCEPT !.refreshes = @ + 1], NoMark)
    /\ UNCHANGED <<db, pool, now, ticks, adminOps, exec, resp, traffic, st, srv, adm, bus, dsp, usg, loc, reg>>

\* the retry: the headers are built again with the refreshed token, then
\* the second send_with_logging(..).await?
RetryUsage ==
    /\ fetch.pc = "retry"
    /\ \/ fetch' = FailedBeforeSend(fetch, "badheader")
       \/ \E o \in UsageAnswers :
             fetch' = IF o.kind = "senderr"
                      THEN FetchFailed([fetch EXCEPT !.sends = @ + 1],
                                       NetworkFailure(AllModels).mark)
                      ELSE [fetch EXCEPT !.sends = @ + 1, !.answers = @ + 1,
                                         !.status = o.status,
                                         !.ra = o.ra, !.pc = "read"]
    /\ UNCHANGED <<db, pool, now, ticks, adminOps, exec, resp, traffic, st, srv, adm, bus, dsp, usg, loc, reg>>

\* the end of the closure: the body of the last answer is read, a non-2xx
\* status fails the attempt with the mark of classify_status, a body that
\* is no JSON fails it without a mark
ReadUsage ==
    /\ fetch.pc = "read"
    /\ \E body \in {"json", "bodyerr", "badjson"} :
          fetch' = CASE body = "bodyerr" ->
                          FetchFailed(fetch, NetworkFailure(AllModels).mark)
                     [] ~IsSuccess(fetch.status) ->
                          FetchFailed([fetch EXCEPT !.read = TRUE],
                                      ClassifyStatus(fetch.status, fetch.ra,
                                                     AllModels, now))
                     [] body = "badjson" ->
                          FetchFailed([fetch EXCEPT !.read = TRUE], NoMark)
                     [] OTHER ->
                          [fetch EXCEPT !.read = TRUE, !.pc = "done",
                                        !.result = "ok"]
    /\ UNCHANGED <<db, pool, now, ticks, adminOps, exec, resp, traffic, st, srv, adm, bus, dsp, usg, loc, reg>>

NextFetch ==
    \/ EnsureTokens
    \/ SendUsage
    \/ RefreshAccessToken
    \/ RetryUsage
    \/ ReadUsage

InitWith(rows) ==
    /\ db = StoreOf(rows)
    /\ pool = RefreshProviderPool(rows, ThisProvider)
    /\ now = StartTime
    /\ ticks = 0
    /\ adminOps = 0
    /\ exec = [c \in Callers |-> IdleExec]
    /\ resp = [c \in Callers |-> NoResp]
    /\ traffic = <<>>
    /\ st = IdleStream
    /\ srv = InitialServer
    /\ adm = InitialAdmin
    /\ bus = InitialBus
    /\ dsp = NoDispatch
    /\ usg = NoRecorder
    /\ loc = NoLocal
    /\ fetch = NoFetch
    /\ reg = [InitialRegistry EXCEPT !.other = RefreshProviderPool(rows, OtherProvider)]

Init ==
    \E prof \in [CredIds -> CredProfiles] :
    \E dis \in DisRowChoices(CredIds) :
        InitWith([credentials |-> RowsOf(prof, CredIds), disallow |-> dis])

(* ------------------------------ outcomes ------------------------------- *)

\* an upstream answer with the given header names besides Retry-After
OutcomeWith(kind, status, ra, headers) ==
    [kind |-> kind, status |-> status, ra |-> ra, headers |-> headers]

Outcome(kind, status, ra) ==
    OutcomeWith(kind, status, ra, {"content-type", "content-length"})

HeaderChoices ==
    {{"content-type"},
     {"content-type", "transfer-encoding", "x-request-id"},
     {"content-length", "transfer-encoding"}}

PoolOutcomes ==
    {Outcome("senderr", 0, RaNone),
     Outcome("resp", 401, RaNone),
     Outcome("resp", 429, RaSecs(7)),
     Outcome("resp", 500, RaNone),
     Outcome("resp", 200, RaNone)}

Next ==
    \/ \E scope \in Models : StartExecute(1, scope, "native", FALSE, TRUE)
    \/ \E o \in PoolOutcomes : Attempt(1, o)
    \/ FinishError(1)
    \/ FinishNativeJson(1)
    \/ Tick

Spec == Init /\ [][Next]_vars

(* ------------- one request through every dispatch path ----------------- *)

UpItems == {"data:A", "data:B", "data:[DONE]", "data:{", "ERR"}

ReqOutcomes ==
    {Outcome("senderr", 0, RaNone),
     Outcome("resp", 429, RaSecs(7)),
     Outcome("resp", 200, RaNone)}

InitReq ==
    InitWith([credentials |-> <<CredRow(1, 10, TRUE), CredRow(2, 5, TRUE)>>,
              disallow |-> <<>>])

RequestSteps ==
    \/ \E plan \in {"native", "transform"} : \E isStream, meta \in BOOLEAN :
          StartExecute(1, "m1", plan, isStream, meta)
    \/ \E o \in ReqOutcomes : Attempt(1, o)
    \/ FinishError(1)
    \/ FinishNativeJson(1)
    \/ FinishNativeStream(1)
    \/ \E xf \in TransformOutcomes : FinishTransformJson(1, xf)
    \/ FinishTransformStream(1)

ForwarderSteps ==
    \/ \E item \in UpItems : NativeUpstream(item)
    \/ NativeSend
    \/ NativeEof
    \/ \E item \in UpItems : TransformUpstream(item)
    \/ TransformSendUp
    \/ TransformEmit
    \/ TransformSendDown
    \/ TransformEof
    \/ CancelStream

RecorderSteps == RecvUp \/ FinishUp \/ RecvDown \/ FinishDown

NextReq ==
    \/ RequestSteps
    \/ ForwarderSteps
    \/ RecorderSteps
    \/ StopUp
    \/ StopDown

SpecReq == InitReq /\ [][NextReq]_vars

\* the same request when no recorder task is stopped from outside; the
\* runtime schedules every spawned recorder task
NextReqLive == RequestSteps \/ ForwarderSteps \/ RecorderSteps

SpecReqLive ==
    /\ InitReq
    /\ [][NextReqLive]_vars
    /\ WF_vars(RecvUp) /\ WF_vars(FinishUp)
    /\ WF_vars(RecvDown) /\ WF_vars(FinishDown)

(* ------------- one request against every upstream status --------------- *)

Statuses == {302, 400, 401, 403, 404, 429, 500, 502, 503, 504}

RetryAfters ==
    {RaNone, RaBad, RaSecs(0), RaSecs(7),
     RaDate(StartTime + 5), RaDate(StartTime), RaDate(StartTime - 5)}

StatusOutcomes ==
    {Outcome("resp", s, RaNone) : s \in Statuses \cup {200}}
        \cup {Outcome("resp", 429, ra) : ra \in RetryAfters}
        \cup {Outcome("resp", 503, RaSecs(7))}
        \cup {Outcome("senderr", 0, RaNone),
              Outcome("nokey", 0, RaNone),
              Outcome("clienterr", 0, RaNone),
              Outcome("badheader", 0, RaNone),
              Outcome("bodyerr", 200, RaNone),
              Outcome("bodyerr", 500, RaNone)}
        \cup {OutcomeWith("resp", 400, RaNone, h) : h \in HeaderChoices}

NextStatus ==
    \/ StartExecute(1, "m1", "native", FALSE, TRUE)
    \/ \E o \in StatusOutcomes : Attempt(1, o)
    \/ FinishError(1)
    \/ FinishNativeJson(1)

SpecStatus == InitReq /\ [][NextStatus]_vars

(* ------------------- a request through the handler --------------------- *)

Requests ==
    [provider : {"aistudio", "nope"},
     key : {"", "k-unknown", "k-disabled", "k-valid"},
     path : {"v1beta/models/m1:generateContent", "bogus"}]

InitHandler ==
    \E r \in Requests :
        /\ db = StoreOf(TwoRows)
        /\ pool = RefreshProviderPool(db[InitialConfig.dsn], ThisProvider)
        /\ now = StartTime
        /\ ticks = 0
        /\ adminOps = 0
        /\ exec = [c \in Callers |->
                     IF c = 1 THEN [IdleExec EXCEPT !.pc = "ingress", !.req = r]
                     ELSE IdleExec]
        /\ resp = [c \in Callers |-> NoResp]
        /\ traffic = <<>>
        /\ st = IdleStream
    /\ srv = InitialServer
    /\ adm = InitialAdmin
    /\ bus = InitialBus
    /\ dsp = NoDispatch
    /\ usg = NoRecorder
    /\ loc = NoLocal
    /\ fetch = NoFetch
    /\ reg = InitialRegistry

NextHandler ==
    \/ LookupProvider(1)
    \/ Authenticate(1)
    \/ ClassifyRequest(1)
    \/ StartExecute(1, "m1", "native", FALSE, TRUE)
    \/ \E o \in StatusOutcomes : Attempt(1, o)
    \/ FinishError(1)
    \/ FinishNativeJson(1)

SpecHandler == InitHandler /\ [][NextHandler]_vars

(* ------------------- reconfiguration while serving --------------------- *)

ConfigPayloads ==
    [dsn : {"", "sqlite:a", "sqlite:b", "postgres:x"},
     host : {"127.0.0.1"},
     port : {"8080", "9090"},
     proxy : {NoProxy, "http://p"},
     admin_key : {"K", "K2"}]

Addresses == {<<"127.0.0.1", "8080">>, <<"127.0.0.1", "9090">>}

\* the put_config calls of one admin, one after the other and on the
\* configured DSN, while the process serves
NextConfig ==
    \/ \E payload \in {c \in ConfigPayloads : c.dsn = "" /\ c.admin_key = "K"} :
          PutConfigStorage(1, payload)
    \/ PutConfigDsn(1)
    \/ PutConfig(1)
    \/ UpsertGlobalConfig(1, "ok")
    \/ EnsureAdminUser(1, "ok")
    \/ EnsureAdminKey(1, "ok")
    \/ LoadConfigSnapshot(1, "ok")
    \/ ApplySnapshotAuth(1)
    \/ ApplySnapshotPools(1)
    \/ ApplySnapshotIds(1)
    \/ ApplySnapshotNames(1)
    \/ SetConfig(1, "ok")
    \/ BindSend(1)
    \/ \E addr \in Addresses : Connect(addr)
    \/ StreamEnds
    \/ ShutdownSignal
    \/ NextBind
    \/ \E bound \in BOOLEAN : Rebind(bound)
    \/ StartExecute(1, "m1", "native", FALSE, TRUE)
    \/ \E o \in ReqOutcomes : Attempt(1, o)
    \/ FinishError(1)
    \/ FinishNativeJson(1)

SpecConfig == InitReq /\ [][NextConfig]_vars

\* usage fetches, one credential attempt after the other
SpecFetch == InitReq /\ [][NextFetch]_vars

(* ---------------- admin mutations during a request -------------------- *)

TwoProfiles ==
    {[present |-> TRUE, weight |-> 10, enabled |-> TRUE],
     [present |-> TRUE, weight |-> 5, enabled |-> TRUE]}

\* the scopes the two callers execute at: a model (handle_generate) and
\* every model (the usage and model-list calls)
TwoScopes == {"m1", AllModels}

TwoOutcomes ==
    {Outcome("senderr", 0, RaNone),
     Outcome("resp", 429, RaSecs(7)),
     Outcome("resp", 200, RaNone)}

\* the rows with the first row matching `same` replaced by `row`, or with
\* `row` appended when none matches
ReplaceOrAppend(rows, row, same(_)) ==
    LET hits == {i \in 1..Len(rows) : same(rows[i])}
    IN IF hits = {} THEN Append(rows, row)
       ELSE [rows EXCEPT ![CHOOSE i \in hits : \A j \in hits : i <= j] = row]

\* provider_id_for_credential: the provider of a stored credential
ProviderIdForCredential(rows, id) ==
    LET hits == {i \in 1..Len(rows.credentials) : rows.credentials[i].id = id}
    IN IF hits = {} THEN NoProvider
       ELSE rows.credentials[CHOOSE i \in hits : \A j \in hits : i <= j].provider_id

\* a payload without a provider_name
NoName == ""

\* resolve_provider_id: the provider_id of the payload when it has one;
\* else 400 when it has no provider_name either, the id that provider_ids
\* holds for the name, and 404 when the map does not hold the name
ResolveProviderId(provider_id, provider_name) ==
    IF provider_id # NoProvider THEN [status |-> 200, id |-> provider_id]
    ELSE IF provider_name = NoName THEN [status |-> 400, id |-> NoProvider]
    ELSE IF provider_name \in DOMAIN reg.ids
    THEN [status |-> 200, id |-> reg.ids[provider_name]]
    ELSE [status |-> 404, id |-> NoProvider]

\* the unique key of a credential_disallow row
DisallowKeyOf(row) == <<row.credential_id, row.scope_kind, row.scope_value>>

\* a handler called by an admin: in flight from its first statement, or
\* admitted by require_admin on the route `route`
Begins(a, route) ==
    \/ adm.h[a].pc = "idle"
    \/ adm.h[a].pc = "admitted" /\ adm.h[a].req.route = route

\* state.storage(), the statement after require_admin of every handler
\* but stats: the handler takes a clone of the storage handle of the admin
\* state, which stays on its database whatever put_config sets later
Storage(a) ==
    /\ \/ adm.h[a].pc = "idle"
       \/ adm.h[a].pc = "admitted" /\ adm.h[a].req.route # "stats"
    /\ adm' = [adm EXCEPT !.h[a].pc = "storage", !.h[a].dsn = srv.handleDsn]
    /\ UNCHANGED <<db, pool, now, ticks, adminOps, exec, resp, traffic, st, srv, bus, dsp, usg, loc, fetch, reg>>

\* a handler of the route `route` that holds its storage handle: one
\* called by an admin, or one that require_admin admitted on that route
Called(a, route) ==
    /\ adm.h[a].pc = "storage"
    /\ adm.h[a].req.route \in {"", route}

\* the handler `op` with the storage handle it holds
Started(a, op) == [adm.h[a] EXCEPT !.op = op]

\* the handler has answered
Answered(h, status) == [h EXCEPT !.pc = "done", !.answer = status]

\* refresh_provider_pool returned an error: create_provider drops it and
\* answers ok, every other handler answers with it
RefreshFailed(h, status) ==
    Answered(h, IF h.op = "create_provider" THEN 200 ELSE status)

\* the handler after a storage call that it answers 500 for when it fails
AfterStorage(h, io, next) ==
    IF io = "err" THEN Answered(h, 500) ELSE [h EXCEPT !.pc = next]

\* the pools a handler hands to registry.apply_pools: the pool of its
\* provider built by refresh_provider_pool, or those of every provider
\* built by apply_snapshot, from the rows the handler has loaded
PoolsOf(h) ==
    LET rows == [credentials |-> h.creds, disallow |-> h.dis]
    IN IF h.op = "reload"
       THEN BuildProviderPools(rows, h.providers)
       ELSE [n \in {h.name} |-> RefreshProviderPool(rows, h.provider)]

\* the pool of this provider among those a handler applies
PoolOf(h) == Applied(PoolsOf(h), ThisName, pool)

\* create_credential / update_credential after state.storage() and up to
\* storage.upsert_credential: resolve_provider_id resolves the provider of
\* the payload under the read lock of provider_ids
WriteCredential(a, row, provider_name) ==
    /\ Called(a, "credentials")
    /\ LET r == ResolveProviderId(row.provider_id, provider_name)
           h == Started(a, "credential")
       IN adm' = [adm EXCEPT !.h[a] =
                    IF r.status # 200 THEN Answered(h, r.status)
                    ELSE [h EXCEPT !.pc = "upsert_credential", !.provider = r.id,
                                   !.row = [row EXCEPT !.provider_id = r.id]]]
    /\ UNCHANGED <<db, pool, now, ticks, adminOps, exec, resp, traffic, st, srv, bus, dsp, usg, loc, fetch, reg>>

\* create_credential / update_credential: storage.upsert_credential(input).await
UpsertCredential(a, io) ==
    /\ adm.h[a].pc = "upsert_credential"
    /\ adm' = [adm EXCEPT !.h[a] = AfterStorage(@, io, "refresh")]
    /\ db' = IF io = "err" THEN db
             ELSE [db EXCEPT ![adm.h[a].dsn].credentials =
                      ReplaceOrAppend(@, adm.h[a].row,
                                      LAMBDA r : r.id = adm.h[a].row.id)]
    /\ UNCHANGED <<pool, now, ticks, adminOps, exec, resp, traffic, st, srv, bus, dsp, usg, loc, fetch, reg>>

\* delete_credential: storage.list_credentials().await and the search for
\* the credential of the path
FindCredential(a, id, io) ==
    /\ Called(a, "credentials")
    /\ LET h == [Started(a, "delete_credential") EXCEPT !.id = id]
           provider == ProviderIdForCredential(db[h.dsn], id)
       IN adm' = [adm EXCEPT !.h[a] =
                    IF io = "err" THEN Answered(h, 500)
                    ELSE IF provider = NoProvider THEN Answered(h, 404)
                    ELSE [h EXCEPT !.pc = "delete_credential", !.provider = provider]]
    /\ UNCHANGED <<db, pool, now, ticks, adminOps, exec, resp, traffic, st, srv, bus, dsp, usg, loc, fetch, reg>>

\* delete_credential: storage.delete_credential(id).await
DeleteCredential(a, io) ==
    /\ adm.h[a].pc = "delete_credential"
    /\ adm' = [adm EXCEPT !.h[a] = AfterStorage(@, io, "refresh")]
    /\ db' = IF io = "err" THEN db
             ELSE [db EXCEPT ![adm.h[a].dsn].credentials =
                      SelectSeq(@, LAMBDA r : r.id # adm.h[a].id)]
    /\ UNCHANGED <<pool, now, ticks, adminOps, exec, resp, traffic, st, srv, bus, dsp, usg, loc, fetch, reg>>

\* create_disallow: provider_id_for_credential(payload.credential_id).await
CreateDisallow(a, row, io) ==
    /\ Called(a, "disallow")
    /\ LET h == [Started(a, "create_disallow") EXCEPT !.row = row]
           provider == ProviderIdForCredential(db[h.dsn], row.credential_id)
       IN adm' = [adm EXCEPT !.h[a] =
                    IF io = "err" THEN Answered(h, 500)
                    ELSE IF provider = NoProvider THEN Answered(h, 404)
                    ELSE [h EXCEPT !.pc = "upsert_disallow", !.provider = provider]]
    /\ UNCHANGED <<db, pool, now, ticks, adminOps, exec, resp, traffic, st, srv, bus, dsp, usg, loc, fetch, reg>>

\* create_disallow: storage.upsert_disallow(input).await
UpsertDisallow(a, io) ==
    /\ adm.h[a].pc = "upsert_disallow"
    /\ adm' = [adm EXCEPT !.h[a] = AfterStorage(@, io, "refresh")]
    /\ db' = IF io = "err" THEN db
             ELSE [db EXCEPT ![adm.h[a].dsn].disallow =
                      ReplaceOrAppend(@, adm.h[a].row,
                          LAMBDA r : DisallowKeyOf(r) = DisallowKeyOf(adm.h[a].row))]
    /\ UNCHANGED <<pool, now, ticks, adminOps, exec, resp, traffic, st, srv, bus, dsp, usg, loc, fetch, reg>>

\* delete_disallow: storage.list_disallow().await and the search for the
\* row of the path; a row is identified by its unique key
FindDisallow(a, key, io) ==
    /\ Called(a, "disallow")
    /\ LET h == Started(a, "delete_disallow")
           rows == db[h.dsn].disallow
           hits == {i \in 1..Len(rows) : DisallowKeyOf(rows[i]) = key}
       IN adm' = [adm EXCEPT !.h[a] =
                    IF io = "err" THEN Answered(h, 500)
                    ELSE IF hits = {} THEN Answered(h, 404)
                    ELSE [h EXCEPT !.pc = "provider_id_for_credential",
                                   !.row = rows[CHOOSE i \in hits : TRUE]]]
    /\ UNCHANGED <<db, pool, now, ticks, adminOps, exec, resp, traffic, st, srv, bus, dsp, usg, loc, fetch, reg>>

\* delete_disallow: provider_id_for_credential(credential_id).await
FindProviderOfDisallow(a, io) ==
    /\ adm.h[a].pc = "provider_id_for_credential"
    /\ LET provider == ProviderIdForCredential(db[adm.h[a].dsn],
                                               adm.h[a].row.credential_id)
       IN adm' = [adm EXCEPT !.h[a] =
                    IF io = "err" THEN Answered(@, 500)
                    ELSE IF provider = NoProvider THEN Answered(@, 404)
                    ELSE [@ EXCEPT !.pc = "delete_disallow", !.provider = provider]]
    /\ UNCHANGED <<db, pool, now, ticks, adminOps, exec, resp, traffic, st, srv, bus, dsp, usg, loc, fetch, reg>>

\* delete_disallow: storage.delete_disallow(id).await
DeleteDisallow(a, io) ==
    /\ adm.h[a].pc = "delete_disallow"
    /\ adm' = [adm EXCEPT !.h[a] = AfterStorage(@, io, "refresh")]
    /\ db' = IF io = "err" THEN db
             ELSE [db EXCEPT ![adm.h[a].dsn].disallow =
                      SelectSeq(@, LAMBDA r : DisallowKeyOf(r) # DisallowKeyOf(adm.h[a].row))]
    /\ UNCHANGED <<pool, now, ticks, adminOps, exec, resp, traffic, st, srv, bus, dsp, usg, loc, fetch, reg>>

\* create_provider / update_provider: storage.upsert_provider(input).await,
\* which fails on a name another provider has
UpsertProvider(a, op, id, name, io) ==
    /\ Called(a, "providers")
    /\ LET h == [Started(a, op) EXCEPT !.provider = id, !.name = name]
           providers == db[h.dsn].providers
           taken == \E other \in DOMAIN providers \ {id} : providers[other] = name
       IN /\ adm' = [adm EXCEPT !.h[a] =
                       AfterStorage(h, IF taken THEN "err" ELSE io,
                                    IF op = "create_provider" THEN "insert_provider_ids"
                                    ELSE "update_provider_names")]
          /\ db' = IF io = "err" \/ taken THEN db
                   ELSE [db EXCEPT ![h.dsn].providers = With(@, id, name)]
    /\ UNCHANGED <<pool, now, ticks, adminOps, exec, resp, traffic, st, srv, bus, dsp, usg, loc, fetch, reg>>

\* insert_provider_map, and update_provider_map for an id that had no
\* name: provider_ids gets the id under the name
InsertProviderIds(a) ==
    /\ adm.h[a].pc = "insert_provider_ids"
    /\ reg' = [reg EXCEPT !.ids = With(@, adm.h[a].name, adm.h[a].provider)]
    /\ adm' = [adm EXCEPT !.h[a].pc = "insert_provider_names"]
    /\ UNCHANGED <<db, pool, now, ticks, adminOps, exec, resp, traffic, st, srv, bus, dsp, usg, loc, fetch>>

\* insert_provider_map, and update_provider_map for an id that had no
\* name: provider_names gets the name under the id; then the handler calls
\* refresh_provider_pool
InsertProviderNames(a) ==
    /\ adm.h[a].pc = "insert_provider_names"
    /\ NamesFree
    /\ reg' = [reg EXCEPT !.names = With(@, adm.h[a].provider, adm.h[a].name)]
    /\ adm' = [adm EXCEPT !.h[a].pc = "refresh"]
    /\ UNCHANGED <<db, pool, now, ticks, adminOps, exec, resp, traffic, st, srv, bus, dsp, usg, loc, fetch>>

\* update_provider_map: provider_names gets the name under the id; when
\* the id had a name the handler keeps the lock and goes on to provider_ids,
\* else it releases it and inserts as insert_provider_map does
UpdateProviderNames(a) ==
    /\ adm.h[a].pc = "update_provider_names"
    /\ NamesFree
    /\ LET h == adm.h[a]
           had == h.provider \in DOMAIN reg.names
       IN /\ reg' = [reg EXCEPT !.names = With(@, h.provider, h.name)]
          /\ adm' = [adm EXCEPT !.h[a] =
                       IF had THEN [h EXCEPT !.pc = "update_provider_ids",
                                             !.old_name = reg.names[h.provider]]
                       ELSE [h EXCEPT !.pc = "insert_provider_ids"]]
    /\ UNCHANGED <<db, pool, now, ticks, adminOps, exec, resp, traffic, st, srv, bus, dsp, usg, loc, fetch>>

\* update_provider_map, for an id that had a name: provider_ids loses the
\* old name and gets the id under the new one; then the handler calls
\* refresh_provider_pool
UpdateProviderIds(a) ==
    /\ adm.h[a].pc = "update_provider_ids"
    /\ reg' = [reg EXCEPT !.ids = With(Without(@, adm.h[a].old_name),
                                       adm.h[a].name, adm.h[a].provider)]
    /\ adm' = [adm EXCEPT !.h[a].pc = "refresh"]
    /\ UNCHANGED <<db, pool, now, ticks, adminOps, exec, resp, traffic, st, srv, bus, dsp, usg, loc, fetch>>

\* refresh_provider_pool, up to its first storage call: it looks the name
\* of the provider up in provider_names, 404 when the map does not hold
\* the id
BeginRefresh(a) ==
    /\ adm.h[a].pc = "refresh"
    /\ NamesFree
    /\ LET h == adm.h[a]
       IN adm' = [adm EXCEPT !.h[a] =
                    IF h.provider \in DOMAIN reg.names
                    THEN [h EXCEPT !.pc = "list_credentials",
                                   !.name = reg.names[h.provider]]
                    ELSE RefreshFailed(h, 404)]
    /\ UNCHANGED <<db, pool, now, ticks, adminOps, exec, resp, traffic, st, srv, bus, dsp, usg, loc, fetch, reg>>

\* delete_provider: storage.list_providers().await and the search for the
\* provider of the path
FindProvider(a, id, io) ==
    /\ Called(a, "providers")
    /\ LET h == Started(a, "delete_provider")
           providers == db[h.dsn].providers
       IN adm' = [adm EXCEPT !.h[a] =
                    IF io = "err" THEN Answered(h, 500)
                    ELSE IF id \notin DOMAIN providers THEN Answered(h, 404)
                    ELSE [h EXCEPT !.pc = "delete_provider", !.provider = id,
                                   !.name = providers[id]]]
    /\ UNCHANGED <<db, pool, now, ticks, adminOps, exec, resp, traffic, st, srv, bus, dsp, usg, loc, fetch, reg>>

\* delete_provider: storage.delete_provider(id).await
DeleteProvider(a, io) ==
    /\ adm.h[a].pc = "delete_provider"
    /\ adm' = [adm EXCEPT !.h[a] = AfterStorage(@, io, "clear_provider_pool")]
    /\ db' = IF io = "err" THEN db
             ELSE [db EXCEPT ![adm.h[a].dsn].providers = Without(@, adm.h[a].provider)]
    /\ UNCHANGED <<pool, now, ticks, adminOps, exec, resp, traffic, st, srv, bus, dsp, usg, loc, fetch, reg>>

\* delete_provider, after the delete: clear_provider_pool installs an empty
\* pool under the name the provider had in the table
ClearProviderPool(a) ==
    /\ adm.h[a].pc = "clear_provider_pool"
    /\ LET h == adm.h[a]
           empty == [n \in {h.name} |-> EmptySnapshot]
       IN /\ pool' = Applied(empty, ThisName, pool)
          /\ reg' = [reg EXCEPT !.other = Applied(empty, OtherName, @)]
    /\ adminOps' = adminOps + 1
    /\ adm' = [adm EXCEPT !.h[a].pc = "remove_provider_names"]
    /\ UNCHANGED <<db, now, ticks, exec, resp, traffic, st, srv, bus, dsp, usg, loc, fetch>>

\* remove_provider_map: provider_names forgets the id; when it held a name
\* for it the handler keeps the lock and goes on to provider_ids, else
\* delete_provider answers
RemoveProviderNames(a) ==
    /\ adm.h[a].pc = "remove_provider_names"
    /\ NamesFree
    /\ LET h == adm.h[a]
           had == h.provider \in DOMAIN reg.names
       IN /\ reg' = [reg EXCEPT !.names = Without(@, h.provider)]
          /\ adm' = [adm EXCEPT !.h[a] =
                       IF had THEN [h EXCEPT !.pc = "remove_provider_ids",
                                             !.old_name = reg.names[h.provider]]
                       ELSE Answered(h, 200)]
    /\ UNCHANGED <<db, pool, now, ticks, adminOps, exec, resp, traffic, st, srv, bus, dsp, usg, loc, fetch>>

\* remove_provider_map: provider_ids forgets the name the id had, and
\* delete_provider answers
RemoveProviderIds(a) ==
    /\ adm.h[a].pc = "remove_provider_ids"
    /\ reg' = [reg EXCEPT !.ids = Without(@, adm.h[a].old_name)]
    /\ adm' = [adm EXCEPT !.h[a] = Answered(@, 200)]
    /\ UNCHANGED <<db, pool, now, ticks, adminOps, exec, resp, traffic, st, srv, bus, dsp, usg, loc, fetch>>

\* refresh_provider_pool: storage.list_credentials().await
ListCredentials(a, io) ==
    /\ adm.h[a].pc = "list_credentials"
    /\ adm' = [adm EXCEPT !.h[a] =
                 IF io = "err" THEN RefreshFailed(@, 500)
                 ELSE [@ EXCEPT !.pc = "list_disallow",
                                !.creds = db[adm.h[a].dsn].credentials]]
    /\ UNCHANGED <<db, pool, now, ticks, adminOps, exec, resp, traffic, st, srv, bus, dsp, usg, loc, fetch, reg>>

\* refresh_provider_pool: storage.list_disallow().await
ListDisallow(a, io) ==
    /\ adm.h[a].pc = "list_disallow"
    /\ adm' = [adm EXCEPT !.h[a] =
                 IF io = "err" THEN RefreshFailed(@, 500)
                 ELSE [@ EXCEPT !.pc = "apply_pools",
                                !.dis = db[adm.h[a].dsn].disallow]]
    /\ UNCHANGED <<db, pool, now, ticks, adminOps, exec, resp, traffic, st, srv, bus, dsp, usg, loc, fetch, reg>>

\* registry.apply_pools: the pools built from the loaded rows replace the
\* snapshots of the providers they name; last step of refresh_provider_pool,
\* and second swap of apply_snapshot, which goes on to the provider maps
ApplyPools(a) ==
    /\ adm.h[a].pc = "apply_pools"
    /\ LET h == adm.h[a]
       IN /\ pool' = Applied(PoolsOf(h), ThisName, pool)
          /\ reg' = [reg EXCEPT !.other = Applied(PoolsOf(h), OtherName, @)]
          /\ adm' = [adm EXCEPT !.h[a] =
                       IF h.op = "reload" THEN [h EXCEPT !.pc = "provider_ids"]
                       ELSE Answered(h, 200)]
    /\ adminOps' = adminOps + 1
    /\ UNCHANGED <<db, now, ticks, exec, resp, traffic, st, srv, bus, dsp, usg, loc, fetch>>

\* reload_snapshot, apply_snapshot: provider_ids is replaced by the map
\* built from the loaded snapshot
WriteProviderIds(a) ==
    /\ adm.h[a].pc = "provider_ids"
    /\ reg' = [reg EXCEPT !.ids = BuildProviderIdMap(adm.h[a].providers)]
    /\ adm' = [adm EXCEPT !.h[a].pc = "provider_names"]
    /\ UNCHANGED <<db, pool, now, ticks, adminOps, exec, resp, traffic, st, srv, bus, dsp, usg, loc, fetch>>

\* reload_snapshot, apply_snapshot: provider_names is replaced by the map
\* built from the loaded snapshot, and the handler answers
WriteProviderNames(a) ==
    /\ adm.h[a].pc = "provider_names"
    /\ NamesFree
    /\ reg' = [reg EXCEPT !.names = adm.h[a].providers]
    /\ adm' = [adm EXCEPT !.h[a] = Answered(@, 200)]
    /\ UNCHANGED <<db, pool, now, ticks, adminOps, exec, resp, traffic, st, srv, bus, dsp, usg, loc, fetch>>

\* the api_keys table, by key value, without the row of id `id`
WithoutKeyId(keys, id) == [k \in {v \in DOMAIN keys : keys[v].key_id # id} |-> keys[k]]

\* create_key: storage.upsert_key(input).await inserts the row, or updates
\* the row of the payload's id; enabled is true when the payload leaves it
\* out; key_value is unique, so the call fails on the value of another row
CreateKey(a, id, key, en, io) ==
    /\ Called(a, "keys")
    /\ LET h == Started(a, "create_key")
           keys == db[h.dsn].keys
           taken == key \in DOMAIN keys /\ keys[key].key_id # id
           row == [key_id |-> id, user_id |-> 1, enabled |-> en]
       IN /\ adm' = [adm EXCEPT !.h[a] =
                       AfterStorage(h, IF taken THEN "err" ELSE io, "list_users")]
          /\ db' = IF io = "err" \/ taken THEN db
                   ELSE [db EXCEPT ![h.dsn].keys = With(WithoutKeyId(@, id), key, row)]
    /\ UNCHANGED <<pool, now, ticks, adminOps, exec, resp, traffic, st, srv, bus, dsp, usg, loc, fetch, reg>>

\* delete_key: storage.delete_key(id).await
DeleteKey(a, id, io) ==
    /\ Called(a, "keys")
    /\ LET h == Started(a, "delete_key")
       IN /\ adm' = [adm EXCEPT !.h[a] = AfterStorage(h, io, "list_users")]
          /\ db' = IF io = "err" THEN db
                   ELSE [db EXCEPT ![h.dsn].keys = WithoutKeyId(@, id)]
    /\ UNCHANGED <<pool, now, ticks, adminOps, exec, resp, traffic, st, srv, bus, dsp, usg, loc, fetch, reg>>

\* disable_key: storage.set_key_enabled(id, false).await changes `enabled`
\* of the row of that id and nothing else
DisableKey(a, id, io) ==
    /\ Called(a, "keys")
    /\ LET h == Started(a, "disable_key")
       IN /\ adm' = [adm EXCEPT !.h[a] = AfterStorage(h, io, "list_users")]
          /\ db' = IF io = "err" THEN db
                   ELSE [db EXCEPT ![h.dsn].keys =
                           [k \in DOMAIN @ |->
                              IF @[k].key_id = id THEN [@[k] EXCEPT !.enabled = FALSE]
                              ELSE @[k]]]
    /\ UNCHANGED <<pool, now, ticks, adminOps, exec, resp, traffic, st, srv, bus, dsp, usg, loc, fetch, reg>>

\* create_user: storage.upsert_user(input).await
CreateUser(a, id, name, io) ==
    /\ Called(a, "users")
    /\ LET h == Started(a, "create_user")
       IN /\ adm' = [adm EXCEPT !.h[a] = AfterStorage(h, io, "list_users")]
          /\ db' = IF io = "err" THEN db
                   ELSE [db EXCEPT ![h.dsn].users = With(@, id, name)]
    /\ UNCHANGED <<pool, now, ticks, adminOps, exec, resp, traffic, st, srv, bus, dsp, usg, loc, fetch, reg>>

\* delete_user: storage.delete_user(id).await; the keys of the user stay
DeleteUser(a, id, io) ==
    /\ Called(a, "users")
    /\ LET h == Started(a, "delete_user")
       IN /\ adm' = [adm EXCEPT !.h[a] = AfterStorage(h, io, "list_users")]
          /\ db' = IF io = "err" THEN db
                   ELSE [db EXCEPT ![h.dsn].users = Without(@, id)]
    /\ UNCHANGED <<pool, now, ticks, adminOps, exec, resp, traffic, st, srv, bus, dsp, usg, loc, fetch, reg>>

\* refresh_auth: storage.list_users().await
ListUsers(a, io) ==
    /\ adm.h[a].pc = "list_users"
    /\ adm' = [adm EXCEPT !.h[a] =
                 IF io = "err" THEN Answered(@, 500)
                 ELSE [@ EXCEPT !.pc = "list_keys", !.users = db[adm.h[a].dsn].users]]
    /\ UNCHANGED <<db, pool, now, ticks, adminOps, exec, resp, traffic, st, srv, bus, dsp, usg, loc, fetch, reg>>

\* refresh_auth: storage.list_keys().await
ListKeys(a, io) ==
    /\ adm.h[a].pc = "list_keys"
    /\ adm' = [adm EXCEPT !.h[a] =
                 IF io = "err" THEN Answered(@, 500)
                 ELSE [@ EXCEPT !.pc = "replace_snapshot",
                                !.keys = db[adm.h[a].dsn].keys]]
    /\ UNCHANGED <<db, pool, now, ticks, adminOps, exec, resp, traffic, st, srv, bus, dsp, usg, loc, fetch, reg>>

\* reload_snapshot, up to storage.load_snapshot().await: the handler holds
\* the rows of every table
LoadSnapshot(a, io) ==
    /\ Called(a, "reload")
    /\ LET h == Started(a, "reload")
           t == db[h.dsn]
       IN adm' = [adm EXCEPT !.h[a] =
                    IF io = "err" THEN Answered(h, 500)
                    ELSE [h EXCEPT !.pc = "replace_snapshot",
                                   !.creds = t.credentials, !.dis = t.disallow,
                                   !.keys = t.keys, !.users = t.users,
                                   !.providers = t.providers]]
    /\ UNCHANGED <<db, pool, now, ticks, adminOps, exec, resp, traffic, st, srv, bus, dsp, usg, loc, fetch, reg>>

\* auth.replace_snapshot: the auth snapshot built from the loaded keys and
\* users replaces the current one; last step of refresh_auth and first swap
\* of apply_snapshot, which goes on to apply_pools
ReplaceSnapshot(a) ==
    /\ adm.h[a].pc = "replace_snapshot"
    /\ adm' = [adm EXCEPT
          !.auth = adm.h[a].keys,
          !.users_by_id = adm.h[a].users,
          !.h[a] = IF adm.h[a].op = "reload"
                   THEN [@ EXCEPT !.pc = "apply_pools",
                                  !.was = [auth |-> adm.auth, pool |-> pool]]
                   ELSE Answered([@ EXCEPT !.was = [auth |-> adm.auth, pool |-> pool]], 200)]
    /\ UNCHANGED <<db, pool, now, ticks, adminOps, exec, resp, traffic, st, srv, bus, dsp, usg, loc, fetch, reg>>

\* admin_health: storage.health().await
Health(a, io) ==
    /\ Called(a, "health")
    /\ adm' = [adm EXCEPT !.h[a] =
                 Answered(Started(a, "health"), IF io = "err" THEN 503 ELSE 200)]
    /\ UNCHANGED <<db, pool, now, ticks, adminOps, exec, resp, traffic, st, srv, bus, dsp, usg, loc, fetch, reg>>

\* stats: the sizes of the pools, read without a storage call
Stats(a) ==
    /\ Begins(a, "stats")
    /\ adm' = [adm EXCEPT !.h[a] = Answered([@ EXCEPT !.op = "stats"], 200)]
    /\ UNCHANGED <<db, pool, now, ticks, adminOps, exec, resp, traffic, st, srv, bus, dsp, usg, loc, fetch, reg>>

\* the payloads of the put_config calls that run beside another one
BesidePayloads ==
    {[InitialConfig EXCEPT !.dsn = "sqlite:b"], [InitialConfig EXCEPT !.dsn = "", !.port = "9090"]}

\* PUT /config calls whose storage calls and lock writes may fail at every
\* step, beside a second call in flight, a delete_provider, and the serve
\* loop that follows the bind address
NextReject ==
    \/ \E payload \in {c \in ConfigPayloads : c.proxy = NoProxy} :
          PutConfigStorage(1, payload)
    \/ \E payload \in BesidePayloads : PutConfigStorage(2, payload)
    \/ \E p \in PutHandlers : PutConfigDsn(p)
    \/ \E p \in PutHandlers : PutConfig(p)
    \/ \E p \in PutHandlers : \E io \in StorageIo : ConnectStorage(p, io)
    \/ \E p \in PutHandlers : \E io \in StorageIo : SyncStorage(p, io)
    \/ \E p \in PutHandlers : \E io \in StorageIo : UpsertGlobalConfig(p, io)
    \/ \E p \in PutHandlers : \E io \in StorageIo : EnsureAdminUser(p, io)
    \/ \E p \in PutHandlers : \E io \in StorageIo : EnsureAdminKey(p, io)
    \/ \E p \in PutHandlers : \E io \in StorageIo : LoadConfigSnapshot(p, io)
    \/ \E p \in PutHandlers : ApplySnapshotAuth(p)
    \/ \E p \in PutHandlers : ApplySnapshotPools(p)
    \/ \E p \in PutHandlers : ApplySnapshotIds(p)
    \/ \E p \in PutHandlers : ApplySnapshotNames(p)
    \/ \E p \in PutHandlers : \E lock \in LockStates : SetStorage(p, lock)
    \/ \E p \in PutHandlers : \E lock \in LockStates : SetConfig(p, lock)
    \/ \E p \in PutHandlers : BindSend(p)
    \/ ShutdownSignal
    \/ NextBind
    \/ \E bound \in BOOLEAN : Rebind(bound)
    \/ Storage(3)
    \/ FindProvider(3, OtherProvider, "ok")
    \/ DeleteProvider(3, "ok")
    \/ ClearProviderPool(3)
    \/ RemoveProviderNames(3)
    \/ RemoveProviderIds(3)

SpecReject == InitReq /\ [][NextReject]_vars

InitAdmin ==
    \E prof \in [CredIds -> TwoProfiles] :
    \E dis \in {<<>>, <<DisRow(1, "all_models", "", "dead", NoUntil)>>, <<OldDisRow(1)>>} :
        InitWith([credentials |-> RowsOf(prof, CredIds), disallow |-> dis])

\* one request, and one admin handler that edits a credential or a
\* disallow of the provider while the request runs
NextAdmin ==
    \/ StartExecute(1, "m1", "native", FALSE, TRUE)
    \/ \E o \in TwoOutcomes : Attempt(1, o)
    \/ FinishError(1)
    \/ FinishNativeJson(1)
    \/ \E id \in CredIds : \E row \in {CredRow(id, 10, TRUE), CredRow(id, 5, FALSE)} :
          WriteCredential(1, row, NoName)
    \/ UpsertCredential(1, "ok")
    \/ Storage(1)
    \/ BeginRefresh(1)
    \/ \E id \in CredIds : FindCredential(1, id, "ok")
    \/ DeleteCredential(1, "ok")
    \/ \E id \in CredIds :
          CreateDisallow(1, DisRow(id, "all_models", "", "dead", NoUntil), "ok")
    \/ CreateDisallow(1, OldDisRow(1), "ok")
    \/ UpsertDisallow(1, "ok")
    \/ FindDisallow(1, <<1, "all_models", "">>, "ok")
    \/ FindProviderOfDisallow(1, "ok")
    \/ DeleteDisallow(1, "ok")
    \/ ListCredentials(1, "ok")
    \/ ListDisallow(1, "ok")
    \/ ApplyPools(1)

SpecAdmin == InitAdmin /\ [][NextAdmin]_vars

(* ------------- admin rebuilds over any stored rows --------------------- *)

RebuildIds == {1, 2}

\* a stored credential of any provider
StoredCredential(id, provider, w) ==
    [CredRow(id, w, TRUE) EXCEPT !.provider_id = provider]

\* what the credentials table may hold for ids 1 and 2: nothing, a
\* credential of this provider with a positive or a negative weight, or a
\* credential of the other provider
StoredProfiles ==
    {[present |-> FALSE, provider_id |-> ThisProvider, weight |-> 0],
     [present |-> TRUE, provider_id |-> ThisProvider, weight |-> 10],
     [present |-> TRUE, provider_id |-> ThisProvider, weight |-> -1],
     [present |-> TRUE, provider_id |-> OtherProvider, weight |-> 10]}

RECURSIVE StoredRowsOf(_, _)
StoredRowsOf(prof, ids) ==
    IF ids = {} THEN <<>>
    ELSE LET id == CHOOSE i \in ids : \A j \in ids : i <= j
         IN (IF prof[id].present
             THEN <<StoredCredential(id, prof[id].provider_id, prof[id].weight)>>
             ELSE <<>>) \o StoredRowsOf(prof, ids \ {id})

\* the credentials tables the handlers start on
StoredTables ==
    {prof \in [RebuildIds -> StoredProfiles] :
        \/ prof[1].present /\ prof[1].provider_id = ThisProvider /\ prof[1].weight = 10
        \/ ~prof[1].present /\ ~prof[2].present}

\* scope kinds and levels a disallow row may carry; "bogus" is a kind or
\* level that no parser knows
StoredScopes ==
    {<<"all_models", "">>, <<"all", "">>, <<"model", "m1">>, <<"model", "">>,
     <<"bogus", "">>}

StoredLevels == {"dead", "cooldown", "bogus"}

\* the credential_disallow table: empty, one row, or two rows of
\* credential 1 that parse to the same scope
StoredDisallows ==
    {<<>>}
    \cup {<<DisRow(2, "all_models", "", "dead", NoUntil)>>,
          <<DisRow(1, "bogus", "", "dead", NoUntil)>>,
          <<DisRow(1, "model", "", "dead", NoUntil)>>,
          <<DisRow(1, "model", "m1", "bogus", NoUntil)>>}
    \cup {<<DisRow(1, "all_models", "", "dead", NoUntil),
            DisRow(1, "all", "", level, StartTime + 1)>> : level \in StoredLevels}

InitRebuild ==
    \E prof \in StoredTables :
    \E dis \in StoredDisallows :
        InitWith([credentials |-> StoredRowsOf(prof, RebuildIds), disallow |-> dis])

RebuildAdmins == {1, 2}

\* what a credential payload names its provider by: an id (3 is an id no
\* provider has), a name, or neither
PayloadProviders ==
    {<<ThisProvider, NoName>>, <<OtherProvider, NoName>>, <<3, NoName>>,
     <<NoProvider, OtherName>>, <<NoProvider, NoName>>}

\* handler 1 is any credential, disallow or provider handler or a reload,
\* with storage calls that may fail; handler 2 runs beside it and edits or
\* deletes credential 1, deletes the other provider, or reloads
NextRebuild ==
    \/ \E id \in RebuildIds : \E by \in PayloadProviders :
       \E w \in {-1, 10} :
          WriteCredential(1, StoredCredential(id, by[1], w), by[2])
    \/ \E id \in RebuildIds : \E io \in StorageIo : FindCredential(1, id, io)
    \/ \E id \in RebuildIds : \E sc \in StoredScopes :
       \E level \in StoredLevels : \E io \in StorageIo :
          CreateDisallow(1, DisRow(id, sc[1], sc[2], level, NoUntil), io)
    \/ \E sc \in StoredScopes : \E io \in StorageIo :
          FindDisallow(1, <<1, sc[1], sc[2]>>, io)
    \/ \E op \in {"create_provider", "update_provider"} :
       \E id \in {ThisProvider, OtherProvider} : \E name \in {ThisName, OtherName} :
       \E io \in StorageIo : UpsertProvider(1, op, id, name, io)
    \/ \E id \in {ThisProvider, OtherProvider, 3} :
       \E io \in StorageIo : FindProvider(1, id, io)
    \/ \E io \in StorageIo : LoadSnapshot(1, io)
    \/ WriteCredential(2, StoredCredential(1, ThisProvider, 10), NoName)
    \/ FindCredential(2, 1, "ok")
    \/ FindProvider(2, OtherProvider, "ok")
    \/ LoadSnapshot(2, "ok")
    \/ \E a \in RebuildAdmins : Storage(a)
    \/ \E a \in RebuildAdmins : \E io \in StorageIo : UpsertCredential(a, io)
    \/ \E a \in RebuildAdmins : InsertProviderIds(a)
    \/ \E a \in RebuildAdmins : InsertProviderNames(a)
    \/ \E a \in RebuildAdmins : UpdateProviderNames(a)
    \/ \E a \in RebuildAdmins : UpdateProviderIds(a)
    \/ \E a \in RebuildAdmins : BeginRefresh(a)
    \/ \E a \in RebuildAdmins : ClearProviderPool(a)
    \/ \E a \in RebuildAdmins : RemoveProviderNames(a)
    \/ \E a \in RebuildAdmins : RemoveProviderIds(a)
    \/ \E a \in RebuildAdmins : \E io \in StorageIo : DeleteCredential(a, io)
    \/ \E a \in RebuildAdmins : \E io \in StorageIo : UpsertDisallow(a, io)
    \/ \E a \in RebuildAdmins : \E io \in StorageIo : FindProviderOfDisallow(a, io)
    \/ \E a \in RebuildAdmins : \E io \in StorageIo : DeleteDisallow(a, io)
    \/ \E a \in RebuildAdmins : \E io \in StorageIo : DeleteProvider(a, io)
    \/ \E a \in RebuildAdmins : ReplaceSnapshot(a)
    \/ \E a \in RebuildAdmins : \E io \in StorageIo : ListCredentials(a, io)
    \/ \E a \in RebuildAdmins : \E io \in StorageIo : ListDisallow(a, io)
    \/ \E a \in RebuildAdmins : ApplyPools(a)
    \/ \E a \in RebuildAdmins : WriteProviderIds(a)
    \/ \E a \in RebuildAdmins : WriteProviderNames(a)

SpecRebuild == InitRebuild /\ [][NextRebuild]_vars

(* ------------- two concurrent requests on one pool --------------------- *)

\* no stored disallow, or credential 1 with an expired Transient on m1 and
\* a live Cooldown on the model no request asks for
TwoDisallows ==
    {<<>>,
     <<DisRow(1, "model", "m1", "transient", StartTime - 1),
       DisRow(1, "model", "m2", "cooldown", StartTime + 1)>>}

InitTwo ==
    \E prof \in [CredIds -> TwoProfiles] :
    \E dis \in TwoDisallows :
        InitWith([credentials |-> RowsOf(prof, CredIds), disallow |-> dis])

NextTwo ==
    \/ \E c \in Callers : \E scope \in TwoScopes :
            StartExecute(c, scope, "native", FALSE, TRUE)
    \/ \E c \in Callers : \E o \in TwoOutcomes : Attempt(c, o)
    \/ \E c \in Callers : FinishError(c)
    \/ \E c \in Callers : FinishNativeJson(c)

SpecTwo == InitTwo /\ [][NextTwo]_vars

(* --------------------------- dispatch plans ---------------------------- *)

ProxyRequests ==
    {"ClaudeMessages", "ClaudeMessagesStream", "ClaudeCountTokens",
     "ClaudeModelsList", "ClaudeModelsGet",
     "GeminiGenerate", "GeminiGenerateStream", "GeminiCountTokens",
     "GeminiModelsList", "GeminiModelsGet",
     "OpenAIChat", "OpenAIChatStream", "OpenAIResponses", "OpenAIResponsesStream",
     "OpenAIInputTokens", "OpenAIModelsList", "OpenAIModelsGet"}

UsageKinds == {"None", "ClaudeMessage", "GeminiGenerate", "OpenAIChat", "OpenAIResponses"}

PlanOps == {"GenerateContent", "StreamContent", "CountTokens", "ModelsList", "ModelsGet"}

\* the variants of GenerateContentPlan and StreamContentPlan, of
\* CountTokensPlan, and of ModelsListPlan and ModelsGetPlan
PlanVariants(op) ==
    CASE op \in {"GenerateContent", "StreamContent"} ->
            {"Claude2Gemini", "Gemini2Claude", "OpenAIResponses2Claude",
             "OpenAIResponses2Gemini"}
      [] op = "CountTokens" ->
            {"Claude2Gemini", "Gemini2Claude", "OpenAIInputTokens2Claude",
             "OpenAIInputTokens2Gemini"}
      [] op \in {"ModelsList", "ModelsGet"} ->
            {"Claude2Gemini", "Gemini2Claude", "OpenAI2Claude", "OpenAI2Gemini"}

NativePlan(req, usage) ==
    [kind |-> "Native", req |-> req, op |-> "", variant |-> "", usage |-> usage]

TransformPlan(op, variant, usage) ==
    [kind |-> "Transform", req |-> "", op |-> op, variant |-> variant, usage |-> usage]

\* the operation of a request variant
OpOf(req) ==
    CASE req \in {"ClaudeMessages", "GeminiGenerate", "OpenAIChat", "OpenAIResponses"}
            -> "GenerateContent"
      [] req \in {"ClaudeMessagesStream", "GeminiGenerateStream", "OpenAIChatStream",
                  "OpenAIResponsesStream"} -> "StreamContent"
      [] req \in {"ClaudeCountTokens", "GeminiCountTokens", "OpenAIInputTokens"}
            -> "CountTokens"
      [] req \in {"ClaudeModelsList", "GeminiModelsList", "OpenAIModelsList"}
            -> "ModelsList"
      [] req \in {"ClaudeModelsGet", "GeminiModelsGet", "OpenAIModelsGet"}
            -> "ModelsGet"

\* the usage tag both planners attach to a request variant
PlannerUsage(req) ==
    CASE req \in {"GeminiGenerate", "GeminiGenerateStream"} -> "GeminiGenerate"
      [] req \in {"OpenAIChat", "OpenAIChatStream"} -> "OpenAIChat"
      [] req \in {"OpenAIResponses", "OpenAIResponsesStream"} -> "OpenAIResponses"
      [] req \in {"ClaudeMessages", "ClaudeMessagesStream"} -> "ClaudeMessage"
      [] OTHER -> "None"

\* the dialect a request variant is written in
DialectOf(req) ==
    CASE req \in {"ClaudeMessages", "ClaudeMessagesStream", "ClaudeCountTokens",
                  "ClaudeModelsList", "ClaudeModelsGet"} -> "Claude"
      [] req \in {"GeminiGenerate", "GeminiGenerateStream", "GeminiCountTokens",
                  "GeminiModelsList", "GeminiModelsGet"} -> "Gemini"
      [] req \in {"OpenAIChat", "OpenAIChatStream"} -> "OpenAIChat"
      [] OTHER -> "OpenAIResponses"

\* the variant the planners name for a request that is to become a Gemini
\* request; OpenAIChat2Gemini is the one vertexexpress names for the two
\* chat requests
ToGeminiVariant(req) ==
    CASE DialectOf(req) = "Claude" -> "Claude2Gemini"
      [] req \in {"OpenAIChat", "OpenAIChatStream"} -> "OpenAIChat2Gemini"
      [] req \in {"OpenAIResponses", "OpenAIResponsesStream"} -> "OpenAIResponses2Gemini"
      [] req = "OpenAIInputTokens" -> "OpenAIInputTokens2Gemini"
      [] req \in {"OpenAIModelsList", "OpenAIModelsGet"} -> "OpenAI2Gemini"

\* AistudioProvider::dispatch_plan: Gemini and OpenAI chat requests are
\* native, every other request is transformed to Gemini
AistudioDispatchPlan(req) ==
    IF DialectOf(req) \in {"Gemini", "OpenAIChat"}
    THEN NativePlan(req, PlannerUsage(req))
    ELSE TransformPlan(OpOf(req), ToGeminiVariant(req), PlannerUsage(req))

\* VertexExpressProvider::dispatch_plan: Gemini requests are native, every
\* other request is a Transform plan to Gemini; for OpenAIChat and
\* OpenAIChatStream the arm builds the plan OpenAIChat2Gemini with the
\* usage tag OpenAIChat
VertexExpressDispatchPlan(req) ==
    IF DialectOf(req) = "Gemini"
    THEN NativePlan(req, PlannerUsage(req))
    ELSE TransformPlan(OpOf(req), ToGeminiVariant(req), PlannerUsage(req))

DispatchPlan(provider, req) ==
    IF provider = "aistudio" THEN AistudioDispatchPlan(req)
    ELSE VertexExpressDispatchPlan(req)

\* call_native: the variants the provider handles itself
CallNativeImplements(provider, req) ==
    IF provider = "aistudio"
    THEN DialectOf(req) \in {"Gemini", "OpenAIChat"}
    ELSE DialectOf(req) = "Gemini"

\* the plans whose arm of dispatch_transform calls the Gemini variant of
\* the operation
ToGemini ==
    {"Claude2Gemini", "OpenAIResponses2Gemini", "OpenAIInputTokens2Gemini",
     "OpenAI2Gemini"}

\* the plans whose arm of dispatch_transform calls the OpenAI variant of
\* the operation; the arms of the remaining plans call the Claude variant
ToOpenAI ==
    {"Claude2OpenAIResponses", "Gemini2OpenAIResponses", "Claude2OpenAIInputTokens",
     "Gemini2OpenAIInputTokens", "Claude2OpenAI", "Gemini2OpenAI"}

\* the arms of dispatch_transform: six plans an operation, those of
\* plan.rs and two that become an OpenAI request.  It has no arm for
\* OpenAIChat2Gemini.
TransformArms(op) ==
    PlanVariants(op) \cup
        (CASE op \in {"GenerateContent", "StreamContent"} ->
                {"Claude2OpenAIResponses", "Gemini2OpenAIResponses"}
           [] op = "CountTokens" ->
                {"Claude2OpenAIInputTokens", "Gemini2OpenAIInputTokens"}
           [] op \in {"ModelsList", "ModelsGet"} -> {"Claude2OpenAI", "Gemini2OpenAI"})

\* a dispatch_transform that hands on a request of the source dialect
TargetRequestOfSource(plan) ==
    LET claude == plan.variant \in {"Claude2Gemini", "Claude2OpenAIResponses",
                                    "Claude2OpenAIInputTokens", "Claude2OpenAI"}
        gemini == plan.variant \in {"Gemini2Claude", "Gemini2OpenAIResponses",
                                    "Gemini2OpenAIInputTokens", "Gemini2OpenAI"}
    IN CASE plan.op = "GenerateContent" ->
                IF claude THEN "ClaudeMessages"
                ELSE IF gemini THEN "GeminiGenerate" ELSE "OpenAIResponses"
         [] plan.op = "StreamContent" ->
                IF claude THEN "ClaudeMessagesStream"
                ELSE IF gemini THEN "GeminiGenerateStream" ELSE "OpenAIResponsesStream"
         [] plan.op = "CountTokens" ->
                IF claude THEN "ClaudeCountTokens"
                ELSE IF gemini THEN "GeminiCountTokens" ELSE "OpenAIInputTokens"
         [] plan.op = "ModelsList" ->
                IF claude THEN "ClaudeModelsList"
                ELSE IF gemini THEN "GeminiModelsList" ELSE "OpenAIModelsList"
         [] plan.op = "ModelsGet" ->
                IF claude THEN "ClaudeModelsGet"
                ELSE IF gemini THEN "GeminiModelsGet" ELSE "OpenAIModelsGet"

\* dispatch_transform: the request that the arm of the plan builds for
\* call_native
TargetRequest(plan) ==
    LET gemini == plan.variant \in ToGemini
        openai == plan.variant \in ToOpenAI
    IN CASE plan.op = "GenerateContent" ->
                IF gemini THEN "GeminiGenerate"
                ELSE IF openai THEN "OpenAIResponses" ELSE "ClaudeMessages"
         [] plan.op = "StreamContent" ->
                IF gemini THEN "GeminiGenerateStream"
                ELSE IF openai THEN "OpenAIResponsesStream" ELSE "ClaudeMessagesStream"
         [] plan.op = "CountTokens" ->
                IF gemini THEN "GeminiCountTokens"
                ELSE IF openai THEN "OpenAIInputTokens" ELSE "ClaudeCountTokens"
         [] plan.op = "ModelsList" ->
                IF gemini THEN "GeminiModelsList"
                ELSE IF openai THEN "OpenAIModelsList" ELSE "ClaudeModelsList"
         [] plan.op = "ModelsGet" ->
                IF gemini THEN "GeminiModelsGet"
                ELSE IF openai THEN "OpenAIModelsGet" ELSE "ClaudeModelsGet"

\* a dispatch_transform that records with the planner's tag
UpstreamUsageOfTag(plan) == plan.usage

\* upstream_usage_for_plan, arm by arm: four plans of GenerateContent and
\* of StreamContent, and any plan of the other three operations
UpstreamUsageForPlan(plan) ==
    CASE plan.op \in {"GenerateContent", "StreamContent"} ->
            (CASE plan.variant = "Claude2Gemini" -> "GeminiGenerate"
               [] plan.variant = "Gemini2Claude" -> "ClaudeMessage"
               [] plan.variant = "OpenAIResponses2Claude" -> "ClaudeMessage"
               [] plan.variant = "OpenAIResponses2Gemini" -> "GeminiGenerate")
      [] plan.op = "CountTokens" -> "None"
      [] plan.op = "ModelsList" -> "None"
      [] plan.op = "ModelsGet" -> "None"

\* the kinds that dispatch_transform may get from upstream_usage_for_plan:
\* the one of the plan's arm; for the GenerateContent and StreamContent
\* plans to OpenAI, which upstream_usage_for_plan has no arm for, the kind
\* is not determined by the source and may be any
UpstreamUsages(plan) ==
    IF plan.op \in {"GenerateContent", "StreamContent"} /\ plan.variant \in ToOpenAI
    THEN UsageKinds
    ELSE {UpstreamUsageForPlan(plan)}

\* the usage state of the upstream recorder of a transformed stream:
\* transform_gemini_stream, which the arms of the plans to Gemini call,
\* keeps a Gemini state, transform_openai_responses_stream, which the arms
\* of the plans to OpenAI call, an OpenAIResponses state,
\* transform_claude_stream, which the arms of the plans to Claude call, a
\* Claude state, and none keeps one for UsageKind::None
StreamUsageState(plan, usage) ==
    IF usage = "None" THEN "None"
    ELSE IF plan.variant \in ToGemini THEN "GeminiGenerate"
    ELSE IF plan.variant \in ToOpenAI THEN "OpenAIResponses"
    ELSE "ClaudeMessage"

\* the usage kind the upstream recorder extracts with, for the kind that
\* upstream_usage_for_plan gave
RecorderUsage(plan, usage) ==
    IF plan.op = "StreamContent" THEN StreamUsageState(plan, usage) ELSE usage

\* dispatch_request, first step: the provider plans the request; the
\* planner is a synchronous match that builds the plan and nothing else
PlanRequest ==
    /\ dsp.pc = "received"
    /\ dsp.provider # ""
    /\ dsp' = [dsp EXCEPT !.pc = "planned", !.plan = DispatchPlan(dsp.provider, dsp.req)]
    /\ UNCHANGED <<db, pool, now, ticks, adminOps, exec, resp, traffic, st, srv, adm, bus, usg, loc, fetch, reg>>

\* dispatch_native: the planned request goes to call_native, and the
\* recorder extracts usage with the planner's tag
DispatchNative ==
    /\ dsp.pc = "planned"
    /\ dsp.plan.kind = "Native"
    /\ dsp' = [dsp EXCEPT !.pc = "handed", !.handed = dsp.plan.req,
                          !.usage = dsp.plan.usage,
                          !.ctx_native = dsp.meta]
    /\ UNCHANGED <<db, pool, now, ticks, adminOps, exec, resp, traffic, st, srv, adm, bus, usg, loc, fetch, reg>>

\* dispatch_transform, for the plans it has an arm for: the translated
\* request goes to call_native with a copy of the context whose downstream
\* metadata is cleared, and the upstream recorder extracts usage with the
\* kind that upstream_usage_for_plan gives for the plan
DispatchTransform ==
    /\ dsp.pc = "planned"
    /\ dsp.plan.kind = "Transform"
    /\ dsp.plan.op \in PlanOps
    /\ dsp.plan.variant \in TransformArms(dsp.plan.op)
    /\ \E usage \in UpstreamUsages(dsp.plan) :
          dsp' = [dsp EXCEPT !.pc = "handed", !.handed = TargetRequest(dsp.plan),
                            !.usage = RecorderUsage(dsp.plan, usage),
                            !.ctx_native = NoMeta]
    /\ UNCHANGED <<db, pool, now, ticks, adminOps, exec, resp, traffic, st, srv, adm, bus, usg, loc, fetch, reg>>

\* the provider id of the UpstreamRecordMeta a handler builds: that of the
\* downstream metadata of the context it was called with, if any
MetaProviderId(ctx_meta) == IF ctx_meta.present THEN ctx_meta.provider_id ELSE NoId

\* call_native of the provider that planned; the handler builds the
\* metadata of the upstream record
CallNative ==
    /\ dsp.pc = "handed"
    /\ dsp.provider # ""
    /\ dsp' = [dsp EXCEPT !.pc = "called",
                          !.result = IF CallNativeImplements(dsp.provider, dsp.handed)
                                     THEN "handled" ELSE "not_implemented",
                          !.provider_id = MetaProviderId(dsp.ctx_native)]
    /\ UNCHANGED <<db, pool, now, ticks, adminOps, exec, resp, traffic, st, srv, adm, bus, usg, loc, fetch, reg>>

DispatchProviders == {"aistudio", "vertexexpress"}

\* the downstream metadata of a request: none, or with or without the id
\* of the provider
DownstreamMetas ==
    {NoMeta, [present |-> TRUE, provider_id |-> NoId], [present |-> TRUE, provider_id |-> 1]}

\* every transform plan that dispatch_transform has an arm for, with any
\* usage tag a planner may attach
TransformPlans ==
    UNION {{TransformPlan(op, variant, usage) :
                variant \in TransformArms(op), usage \in UsageKinds} : op \in PlanOps}

\* a request for one of the two providers, or a transform plan of any
\* planner as dispatch_transform receives it
InitPlan ==
    /\ db = StoreOf(TwoRows)
    /\ pool = RefreshProviderPool(db[InitialConfig.dsn], ThisProvider)
    /\ now = StartTime
    /\ ticks = 0
    /\ adminOps = 0
    /\ exec = [c \in Callers |-> IdleExec]
    /\ resp = [c \in Callers |-> NoResp]
    /\ traffic = <<>>
    /\ st = IdleStream
    /\ srv = InitialServer
    /\ adm = InitialAdmin
    /\ bus = InitialBus
    /\ usg = NoRecorder
    /\ loc = NoLocal
    /\ fetch = NoFetch
    /\ reg = InitialRegistry
    /\ \/ \E provider \in DispatchProviders : \E req \in ProxyRequests :
          \E meta \in DownstreamMetas :
             dsp = [NoDispatch EXCEPT !.pc = "received", !.provider = provider,
                                      !.req = req, !.meta = meta]
       \/ \E plan \in TransformPlans :
             dsp = [NoDispatch EXCEPT !.pc = "planned", !.plan = plan]

NextPlan ==
    \/ PlanRequest
    \/ DispatchNative
    \/ DispatchTransform
    \/ CallNative

SpecPlan == InitPlan /\ [][NextPlan]_vars

(* ------------------ vertexexpress: local model answers ---------------- *)

MaxKeys == 2

\* the names of models.json
LocalModelNames == {"models/m1"}

\* the model names a request may ask for
RequestedNames == {"m1", "models/m1", "zz"}

\* find_local_model: the entry whose name is the requested one, as it is or
\* with the models/ prefix
FindLocalModel(name) ==
    \E m \in LocalModelNames : m = name \/ m = "models/" \o name

\* a handler that asks the upstream for the models
LocalAnswerCallingUpstream(l) ==
    [l EXCEPT !.pc = "ok", !.http = @ + 1, !.status = 200, !.body = "upstream json",
              !.request_body = ""]

\* handle_models_list and handle_models_get with a credential that has an
\* API key: the answer is built from models.json, nothing is sent upstream
LocalAnswer(l) ==
    [l EXCEPT !.pc = "ok",
              !.status = IF l.op = "models_get" /\ ~FindLocalModel(l.name)
                         THEN 404 ELSE 200,
              !.body = IF l.op = "models_list" THEN "models.json"
                       ELSE IF FindLocalModel(l.name) THEN "model json"
                       ELSE "model not found",
              !.request_body = ""]

\* what the closure of handle_count_tokens may meet once the credential
\* has an API key: shared_client fails, the request fails on the network,
\* the answer is non-2xx, its body cannot be read, or the answer is a 2xx
RemoteOutcomes == {"ok", "clienterr", "senderr", "non2xx", "bodyerr"}

\* the attempt of a credential failed: pool.execute goes on with the next
\* credential, and answers with the last failure when none is left
AttemptFailed(l, status) ==
    IF l.tried = Len(l.keys) THEN [l EXCEPT !.pc = "done", !.answer = status]
    ELSE l

\* handle_count_tokens with a credential that has an API key: the request
\* body is posted upstream and the answer goes to handle_response, which
\* records a non-2xx answer upstream and fails the attempt
RemoteAnswer(l, o) ==
    CASE o = "ok" ->
            [l EXCEPT !.pc = "ok", !.http = @ + 1, !.status = 200,
                      !.body = "upstream json", !.request_body = "request json"]
      [] o = "clienterr" -> AttemptFailed(l, 503)
      [] o = "non2xx" ->
            AttemptFailed(
                [l EXCEPT !.http = @ + 1,
                          !.records = Append(@, [dir |-> "up", status |-> 429,
                                                 request_body |-> "request json",
                                                 body |-> "error json"])],
                429)
      [] OTHER -> AttemptFailed([l EXCEPT !.http = @ + 1], 503)

\* one attempt of the pool's execute: a credential without api_key fails
\* as invalid and the next one is tried, else the handler answers
LocalAttempt(o) ==
    /\ loc.pc = "loop"
    /\ LET has_key == loc.keys[loc.tried + 1]
           l == [loc EXCEPT !.tried = @ + 1]
       IN loc' = IF ~has_key THEN AttemptFailed(l, 503)
                 ELSE IF l.op = "count_tokens" THEN RemoteAnswer(l, o)
                 ELSE LocalAnswer(l)
    /\ UNCHANGED <<db, pool, now, ticks, adminOps, exec, resp, traffic, st, srv, adm, bus, dsp, usg, fetch, reg>>

LocalUpRecord(l) ==
    [dir |-> "up", status |-> l.status, request_body |-> l.request_body,
     body |-> l.body]

LocalDownRecord(l, body) == [dir |-> "down", status |-> l.status, request_body |-> "", body |-> body]

\* dispatch_native: record_upstream_and_downstream writes the upstream
\* record and, with downstream metadata, the downstream one.
\* dispatch_transform: record_upstream_only writes the upstream record, then
\* transform_json_response parses the body into the response of the
\* upstream dialect, whatever the status, and writes the downstream record;
\* the parse may fail for the body an upstream sent and for the error body
\* of an unknown model, and the answer is then 503.
LocalRecord(parses) ==
    /\ loc.pc = "ok"
    /\ ~parses => (loc.plan = "transform" /\ (loc.status = 404 \/ loc.op = "count_tokens"))
    /\ loc' = IF loc.plan = "native"
              THEN [loc EXCEPT
                      !.pc = "done", !.answer = loc.status,
                      !.records = @ \o <<LocalUpRecord(loc)>> \o
                                  (IF loc.meta THEN <<LocalDownRecord(loc, loc.body)>>
                                   ELSE <<>>)]
              ELSE [loc EXCEPT
                      !.pc = "done", !.answer = IF parses THEN loc.status ELSE 503,
                      !.records = @ \o <<LocalUpRecord(loc)>> \o
                                  (IF parses /\ loc.meta
                                   THEN <<LocalDownRecord(loc, "transformed")>>
                                   ELSE <<>>)]
    /\ UNCHANGED <<db, pool, now, ticks, adminOps, exec, resp, traffic, st, srv, adm, bus, dsp, usg, fetch, reg>>

RECURSIVE KeysUpTo(_)
KeysUpTo(n) ==
    IF n = 0 THEN {}
    ELSE KeysUpTo(n - 1) \cup [1..n -> BOOLEAN]

\* a request for the models list, a model or a token count, planned native
\* or as a transform, and the credentials of the pool in attempt order
InitLocal ==
    /\ db = StoreOf(TwoRows)
    /\ pool = RefreshProviderPool(db[InitialConfig.dsn], ThisProvider)
    /\ now = StartTime
    /\ ticks = 0
    /\ adminOps = 0
    /\ exec = [c \in Callers |-> IdleExec]
    /\ resp = [c \in Callers |-> NoResp]
    /\ traffic = <<>>
    /\ st = IdleStream
    /\ srv = InitialServer
    /\ adm = InitialAdmin
    /\ bus = InitialBus
    /\ dsp = NoDispatch
    /\ usg = NoRecorder
    /\ fetch = NoFetch
    /\ reg = InitialRegistry
    /\ \E op \in {"models_list", "models_get", "count_tokens"} :
       \E name \in RequestedNames : \E plan \in {"native", "transform"} :
       \E meta \in BOOLEAN : \E keys \in KeysUpTo(MaxKeys) :
          /\ op # "models_get" => name = "m1"
          /\ loc = [NoLocal EXCEPT !.pc = "loop", !.op = op, !.name = name,
                                   !.plan = plan, !.meta = meta, !.keys = keys]

NextLocal ==
    \/ \E o \in RemoteOutcomes : LocalAttempt(o)
    \/ \E parses \in BOOLEAN : LocalRecord(parses)

SpecLocal == InitLocal /\ [][NextLocal]_vars

(* ------------------------- stream usage states ------------------------- *)

MaxFrames == 3

\* the token counts a usage frame may carry
TokenCounts == {1, 2}

\* the data payloads of a stream: a frame without usage, a frame carrying
\* usage, the terminator, and a payload that does not parse
TextFrame == [kind |-> "text", tokens |-> NoUsage]

UsageFrame(n) == [kind |-> "usage", tokens |-> n]

DoneFrame == [kind |-> "[DONE]", tokens |-> NoUsage]

BadFrame == [kind |-> "bad", tokens |-> NoUsage]

DataFrames == {TextFrame, DoneFrame, BadFrame} \cup {UsageFrame(n) : n \in TokenCounts}

\* the usage kinds whose stream state is OpenAIUsageState or
\* GeminiUsageState
StreamUsageKinds == {"OpenAIChat", "GeminiGenerate", "None"}

\* OpenAIUsageState::push_event and GeminiUsageState::push_event: nothing
\* once a usage is held or on the terminator, else the usage of a frame
\* that parses and carries one
PushEvent(state, data) ==
    IF state # NoUsage \/ data.kind = "[DONE]" THEN state
    ELSE IF data.kind = "usage" THEN data.tokens
    ELSE state

\* the recorder loop takes one data frame: the terminator is skipped, any
\* other is pushed to the usage state if there is one
RecorderPush ==
    /\ usg.pc = "run"
    /\ usg.frames # <<>>
    /\ LET data == Head(usg.frames) IN
        usg' = [usg EXCEPT
                  !.frames = Tail(@),
                  !.taken = Append(@, data),
                  !.state = IF data.kind = "[DONE]" \/ usg.kind = "None" THEN @
                            ELSE PushEvent(@, data)]
    /\ UNCHANGED <<db, pool, now, ticks, adminOps, exec, resp, traffic, st, srv, adm, bus, dsp, loc, fetch, reg>>

\* the channel is closed: usage_state.finish() goes into the records
RecorderFinish ==
    /\ usg.pc = "run"
    /\ usg.frames = <<>>
    /\ usg' = [usg EXCEPT !.pc = "recorded",
                          !.recorded = IF usg.kind = "None" THEN NoUsage ELSE usg.state]
    /\ UNCHANGED <<db, pool, now, ticks, adminOps, exec, resp, traffic, st, srv, adm, bus, dsp, loc, fetch, reg>>

RECURSIVE FramesUpTo(_)
FramesUpTo(n) ==
    IF n = 0 THEN {<<>>}
    ELSE FramesUpTo(n - 1) \cup
         {Append(f, d) : f \in {g \in FramesUpTo(n - 1) : Len(g) = n - 1},
                         d \in DataFrames}

\* a recorder of any usage kind and the data frames of its stream
InitUsage ==
    /\ db = StoreOf(TwoRows)
    /\ pool = RefreshProviderPool(db[InitialConfig.dsn], ThisProvider)
    /\ now = StartTime
    /\ ticks = 0
    /\ adminOps = 0
    /\ exec = [c \in Callers |-> IdleExec]
    /\ resp = [c \in Callers |-> NoResp]
    /\ traffic = <<>>
    /\ st = IdleStream
    /\ srv = InitialServer
    /\ adm = InitialAdmin
    /\ bus = InitialBus
    /\ dsp = NoDispatch
    /\ loc = NoLocal
    /\ fetch = NoFetch
    /\ reg = InitialRegistry
    /\ \E kind \in StreamUsageKinds : \E frames \in FramesUpTo(MaxFrames) :
          usg = [NoRecorder EXCEPT !.pc = "run", !.kind = kind, !.frames = frames]

NextUsage ==
    \/ RecorderPush
    \/ RecorderFinish

SpecUsage == InitUsage /\ [][NextUsage]_vars

(* --------------------- state sink and storage bus --------------------- *)

QueueCap == 1
MaxMarks == 2
MaxRetries == 1

\* the longest time a pool operation waits on the full state queue, ms
BlockMs == 100

\* what may pass between two looks at the queue, ms
Delays == {50, 100}

StateMarks ==
    {[scope |-> "m1", level |-> "Dead", duration |-> NoDur, reason |-> "invalid_credential"],
     [scope |-> "m1", level |-> "Transient", duration |-> TransientSecs,
      reason |-> "network_error"]}

EventOf(id, mark) ==
    [cred |-> id, scope |-> mark.scope, level |-> mark.level,
     until |-> IF mark.duration = NoDur THEN NoUntil ELSE now + mark.duration,
     reason |-> mark.reason, at |-> now]

\* the credential_disallow row of a state event
EventRow(event) ==
    [credential_id |-> event.cred,
     scope_kind |-> IF event.scope = AllModels THEN "all_models" ELSE "model",
     scope_value |-> IF event.scope = AllModels THEN "" ELSE event.scope,
     level |-> CASE event.level = "Dead" -> "dead"
                 [] event.level = "Cooldown" -> "cooldown"
                 [] OTHER -> "transient",
     until_at |-> event.until, reason |-> event.reason, updated_at |-> event.at]

QueueFull == Len(bus.queue) >= QueueCap

\* a pool operation marks a credential: with room in the state queue the
\* mark is applied to the snapshot and its event enqueued; on a full queue
\* the operation blocks
BeginMark(id, mark) ==
    /\ bus.op.pc = "idle"
    /\ Len(bus.applied) < MaxMarks
    /\ IF QueueFull
       THEN /\ bus' = [bus EXCEPT !.op = [pc |-> "blocked", event |-> EventOf(id, mark),
                                          mark |-> mark, waited |-> 0, retries |-> 0]]
            /\ UNCHANGED pool
       ELSE /\ pool' = ApplyMark(pool, id, mark, now)
            /\ bus' = [bus EXCEPT !.queue = Append(@, EventOf(id, mark)),
                                  !.applied = Append(@, EventOf(id, mark)),
                                  !.op = [pc |-> "idle", event |-> EventOf(id, mark),
                                          mark |-> mark, waited |-> 0, retries |-> 0]]
    /\ UNCHANGED <<db, now, ticks, adminOps, exec, resp, traffic, st, srv, adm, dsp, usg, loc, fetch, reg>>

\* time passes for the blocked operation, up to the limit
Elapse(d) ==
    /\ bus.op.pc = "blocked"
    /\ QueueFull
    /\ bus.op.waited + d <= BlockMs
    /\ bus' = [bus EXCEPT !.op.waited = @ + d]
    /\ UNCHANGED <<db, pool, now, ticks, adminOps, exec, resp, traffic, st, srv, adm, dsp, usg, loc, fetch, reg>>

\* the queue got room while the operation was blocked
Unblock ==
    /\ bus.op.pc = "blocked"
    /\ ~QueueFull
    /\ pool' = ApplyMark(pool, bus.op.event.cred, bus.op.mark, now)
    /\ bus' = [bus EXCEPT !.queue = Append(@, bus.op.event),
                          !.applied = Append(@, bus.op.event),
                          !.op.pc = "idle"]
    /\ UNCHANGED <<db, now, ticks, adminOps, exec, resp, traffic, st, srv, adm, dsp, usg, loc, fetch, reg>>

\* a blocked operation that gives the event up when the limit is reached
TimeoutDroppingEvent ==
    /\ bus.op.pc = "blocked"
    /\ QueueFull
    /\ bus.op.waited = BlockMs
    /\ pool' = ApplyMark(pool, bus.op.event.cred, bus.op.mark, now)
    /\ bus' = [bus EXCEPT !.applied = Append(@, bus.op.event), !.op.pc = "idle"]
    /\ UNCHANGED <<db, now, ticks, adminOps, exec, resp, traffic, st, srv, adm, dsp, usg, loc, fetch, reg>>

\* the limit is reached on a queue that is still full: the mark is applied
\* to the snapshot regardless, and the enqueue is retried
Timeout ==
    /\ bus.op.pc = "blocked"
    /\ QueueFull
    /\ bus.op.waited = BlockMs
    /\ pool' = ApplyMark(pool, bus.op.event.cred, bus.op.mark, now)
    /\ bus' = [bus EXCEPT !.applied = Append(@, bus.op.event), !.op.pc = "retrying"]
    /\ UNCHANGED <<db, now, ticks, adminOps, exec, resp, traffic, st, srv, adm, dsp, usg, loc, fetch, reg>>

\* one retry of the enqueue: accepted when the queue has room
RetryEnqueue ==
    /\ bus.op.pc = "retrying"
    /\ IF QueueFull
       THEN /\ bus.op.retries < MaxRetries
            /\ bus' = [bus EXCEPT !.op.retries = @ + 1]
       ELSE bus' = [bus EXCEPT !.queue = Append(@, bus.op.event), !.op.pc = "idle"]
    /\ UNCHANGED <<db, pool, now, ticks, adminOps, exec, resp, traffic, st, srv, adm, dsp, usg, loc, fetch, reg>>

\* the actor of the bus takes the oldest event of the state queue and
\* writes it to the disallow table of the storage that run gave the bus,
\* the one of the start-up DSN; when the write fails the bus drops the
\* event with a warning and stays running
ActorStore(io) ==
    /\ bus.queue # <<>>
    /\ bus' = [bus EXCEPT !.queue = Tail(@),
                          !.taken = Append(@, [event |-> Head(bus.queue), io |-> io])]
    /\ IF io = "ok"
       THEN db' = [db EXCEPT ![InitialConfig.dsn].disallow =
                ReplaceOrAppend(@, EventRow(Head(bus.queue)),
                    LAMBDA r : /\ r.credential_id = Head(bus.queue).cred
                               /\ r.scope_kind = EventRow(Head(bus.queue)).scope_kind
                               /\ r.scope_value = EventRow(Head(bus.queue)).scope_value)]
       ELSE UNCHANGED db
    /\ UNCHANGED <<pool, now, ticks, adminOps, exec, resp, traffic, st, srv, adm, dsp, usg, loc, fetch, reg>>

NextSink ==
    \/ \E id \in CredIds : \E mark \in StateMarks : BeginMark(id, mark)
    \/ \E d \in Delays : Elapse(d)
    \/ Unblock
    \/ Timeout
    \/ RetryEnqueue
    \/ \E io \in StorageIo : ActorStore(io)

SpecSink ==
    /\ InitReq /\ [][NextSink]_vars
    /\ WF_vars(RetryEnqueue) /\ WF_vars(\E io \in StorageIo : ActorStore(io))

\* marks of the request path, their persistence, and one admin handler
\* that rebuilds the pool from the database
NextPersist ==
    \/ NextSink
    \/ \E id \in CredIds : WriteCredential(1, CredRow(id, 10, TRUE), NoName)
    \/ UpsertCredential(1, "ok")
    \/ BeginRefresh(1)
    \/ Storage(1)
    \/ LoadSnapshot(1, "ok")
    \/ ListCredentials(1, "ok")
    \/ ListDisallow(1, "ok")
    \/ ReplaceSnapshot(1)
    \/ ApplyPools(1)
    \/ WriteProviderIds(1)
    \/ WriteProviderNames(1)

SpecPersist == InitReq /\ [][NextPersist]_vars

(* ----------------------------- admin guard ----------------------------- *)

\* header_value: the header as a string, if it is there and is text
HeaderText(h) == IF h.kind = "text" THEN h ELSE NoHeader

\* an is_admin that accepts any bearer token
IsAdminAnyBearer(req, admin_key) ==
    req.authorization.kind = "text" /\ req.authorization.scheme \in {"Bearer", "bearer"}

\* is_admin: an x-admin-key header decides alone, by exact comparison;
\* without one, the trimmed Authorization value must be "Bearer " or
\* "bearer " followed by the key, blanks around the token ignored
IsAdmin(req, admin_key) ==
    LET x == HeaderText(req.x_admin_key)
        auth == HeaderText(req.authorization)
    IN IF x.kind = "text"
       THEN x.scheme = "" /\ x.sep = "" /\ ~x.pad /\ x.token = admin_key
       ELSE /\ auth.kind = "text"
            /\ auth.scheme \in {"Bearer", "bearer"}
            /\ auth.sep = " "
            /\ auth.token = admin_key

\* the routes of the admin router that the model serves; those of
\* ExtractingRoutes take a path id or a JSON body
AdminRoutes == {"health", "stats", "credentials", "keys", "users", "reload"}

ExtractingRoutes == {"credentials", "keys", "users"}

\* the extractors of the handler's signature run before its body: a path
\* id or a JSON body that cannot be extracted is answered by the rejection
Extract(a) ==
    /\ adm.h[a].pc = "received"
    /\ IF adm.h[a].req.route \in ExtractingRoutes /\ adm.h[a].req.body = "bad_json"
       THEN adm' = [adm EXCEPT !.h[a].pc = "done", !.h[a].answer = 400]
       ELSE adm' = [adm EXCEPT !.h[a].pc = "extracted"]
    /\ UNCHANGED <<db, pool, now, ticks, adminOps, exec, resp, traffic, st, srv, bus, dsp, usg, loc, fetch, reg>>

\* require_admin, the first statement of every handler: it reads the
\* admin key of the configuration under the lock of the configuration
RequireAdmin(a) ==
    /\ adm.h[a].pc = "extracted"
    /\ IF IsAdmin(adm.h[a].req, srv.config.admin_key)
       THEN adm' = [adm EXCEPT !.h[a].pc = "admitted"]
       ELSE adm' = [adm EXCEPT !.h[a].pc = "done", !.h[a].answer = 401]
    /\ UNCHANGED <<db, pool, now, ticks, adminOps, exec, resp, traffic, st, srv, bus, dsp, usg, loc, fetch, reg>>

HeaderValues ==
    {NoHeader, OpaqueHeader}
    \cup {HeaderValue(scheme, sep, token, pad) :
            scheme \in {"Bearer", "bearer", "BEARER", "Basic"}, sep \in {" "},
            token \in {"K", "X"}, pad \in BOOLEAN}
    \cup {HeaderValue("Bearer", "", "K", FALSE)}
    \cup {HeaderValue("", "", token, pad) : token \in {"K", "X"}, pad \in BOOLEAN}

AdminRequests ==
    [route : AdminRoutes,
     x_admin_key : {NoHeader, OpaqueHeader, HeaderValue("", "", "K", FALSE),
                    HeaderValue("", "", "K", TRUE), HeaderValue("", "", "X", FALSE)},
     authorization : HeaderValues,
     body : {"ok", "bad_json"}]

InitGuard ==
    \E r \in AdminRequests :
        /\ db = StoreOf(TwoRows)
        /\ pool = RefreshProviderPool(db[InitialConfig.dsn], ThisProvider)
        /\ now = StartTime
        /\ ticks = 0
        /\ adminOps = 0
        /\ exec = [c \in Callers |-> IdleExec]
        /\ resp = [c \in Callers |-> NoResp]
        /\ traffic = <<>>
        /\ st = IdleStream
        /\ srv = InitialServer
        /\ adm = [InitialAdmin EXCEPT !.h[1].pc = "received", !.h[1].req = r]
        /\ bus = InitialBus
        /\ dsp = NoDispatch
        /\ usg = NoRecorder
        /\ loc = NoLocal
        /\ fetch = NoFetch
        /\ reg = InitialRegistry

\* one admin request: the extractors, the guard, and the body of the
\* handler of its route, storage call by storage call
NextGuard ==
    \/ Extract(1)
    \/ RequireAdmin(1)
    \/ Storage(1)
    \/ \E io \in StorageIo : Health(1, io)
    \/ Stats(1)
    \/ WriteCredential(1, CredRow(3, 5, TRUE), NoName)
    \/ \E io \in StorageIo : UpsertCredential(1, io)
    \/ BeginRefresh(1)
    \/ \E io \in StorageIo : ListCredentials(1, io)
    \/ \E io \in StorageIo : ListDisallow(1, io)
    \/ \E io \in StorageIo : CreateKey(1, 3, "k-new", TRUE, io)
    \/ \E io \in StorageIo : DeleteKey(1, 1, io)
    \/ \E io \in StorageIo : DisableKey(1, 1, io)
    \/ \E io \in StorageIo : CreateUser(1, 2, "u2", io)
    \/ \E io \in StorageIo : DeleteUser(1, 1, io)
    \/ \E io \in StorageIo : ListUsers(1, io)
    \/ \E io \in StorageIo : ListKeys(1, io)
    \/ \E io \in StorageIo : LoadSnapshot(1, io)
    \/ ReplaceSnapshot(1)
    \/ ApplyPools(1)
    \/ WriteProviderIds(1)
    \/ WriteProviderNames(1)

SpecGuard == InitGuard /\ [][NextGuard]_vars

RaceRequests ==
    [provider : {"aistudio"}, key : {"k-valid", "k-new"},
     path : {"v1beta/models/m1:generateContent"}]

InitRace ==
    \E r \in RaceRequests :
        /\ db = StoreOf(TwoRows)
        /\ pool = RefreshProviderPool(db[InitialConfig.dsn], ThisProvider)
        /\ now = StartTime
        /\ ticks = 0
        /\ adminOps = 0
        /\ exec = [c \in Callers |->
                     IF c = 1 THEN [IdleExec EXCEPT !.pc = "ingress", !.req = r]
                     ELSE IdleExec]
        /\ resp = [c \in Callers |-> NoResp]
        /\ traffic = <<>>
        /\ st = IdleStream
    /\ srv = InitialServer
    /\ adm = InitialAdmin
    /\ bus = InitialBus
    /\ dsp = NoDispatch
    /\ usg = NoRecorder
    /\ loc = NoLocal
    /\ fetch = NoFetch
    /\ reg = InitialRegistry

NextRace ==
    \/ \E a \in Admins : WriteCredential(a, CredRow(3, 5, TRUE), NoName)
    \/ \E a \in Admins : WriteCredential(a, CredRow(3, 10, FALSE), NoName)
    \/ \E a \in Admins : UpsertCredential(a, "ok")
    \/ \E a \in Admins : BeginRefresh(a)
    \/ \E a \in Admins : Storage(a)
    \/ \E a \in Admins : ListCredentials(a, "ok")
    \/ \E a \in Admins : ListDisallow(a, "ok")
    \/ \E a \in Admins : ApplyPools(a)
    \/ \E a \in Admins : WriteProviderIds(a)
    \/ \E a \in Admins : WriteProviderNames(a)
    \/ \E a \in Admins : CreateKey(a, 3, "k-new", TRUE, "ok")
    \/ \E a \in Admins : DisableKey(a, 1, "ok")
    \/ \E a \in Admins : ListUsers(a, "ok")
    \/ \E a \in Admins : ListKeys(a, "ok")
    \/ \E a \in Admins : LoadSnapshot(a, "ok")
    \/ \E a \in Admins : ReplaceSnapshot(a)
    \/ LookupProvider(1)
    \/ Authenticate(1)
    \/ ClassifyRequest(1)
    \/ StartExecute(1, "m1", "native", FALSE, TRUE)

SpecRace == InitRace /\ [][NextRace]_vars

(* ============================ properties =============================== *)

EntryOf(snap, id) == CHOOSE e \in SeqRange(snap.credentials) : e.id = id

TriedCreds(e) == [i \in 1..Len(e.tried) |-> e.tried[i].cred]

\* the snapshot of scenario 1: A (weight 10) and B (weight 5) enabled, no
\* other credential that could be used, no disallows
FallbackSnapshot(snap) ==
    /\ \E a, b \in SeqRange(snap.credentials) :
          /\ a.id = 1 /\ a.weight = 10 /\ a.enabled
          /\ b.id = 2 /\ b.weight = 5 /\ b.enabled
    /\ \A e \in SeqRange(snap.credentials) : e.id \in {1, 2} \/ ~e.enabled
    /\ DOMAIN snap.disallow = {}

FallbackRun(e) ==
    /\ e.pc \in {"ok", "done"}
    /\ FallbackSnapshot(e.snap)
    /\ \E i \in 1..Len(e.tried) :
          e.tried[i] = [cred |-> 1, o |-> Outcome("resp", 429, RaSecs(7))]
    /\ \E i \in 1..Len(e.tried) :
          e.tried[i] = [cred |-> 2, o |-> Outcome("resp", 200, RaNone)]

\* C1: pool fallback.  With A (weight 10) and B (weight 5) enabled and no
\* disallows, when A's attempt fails on 429 with Retry-After 7 and B's
\* attempt returns 200, A was attempted before B, the caller gets B's 200,
\* and the pool then holds exactly one disallow entry: a Cooldown on A whose
\* until is 7 seconds after the time the mark was applied.
C1_PoolFallback ==
    LET e == exec[1]
    IN FallbackRun(e) =>
        /\ TriedCreds(e) = <<1, 2>>
        /\ e.ok.cred = 2 /\ e.ok.status = 200
        /\ e.pc = "done" =>
              /\ resp[1].kind = "json" /\ resp[1].status = 200
              /\ resp[1].body = UpstreamBody(2, 200)
        /\ DOMAIN pool.disallow = {<<1, e.scope>>}
        /\ pool.disallow[<<1, e.scope>>].level = "Cooldown"
        /\ pool.disallow[<<1, e.scope>>].until
              = pool.disallow[<<1, e.scope>>].updated_at + 7
        /\ pool.disallow[<<1, e.scope>>].updated_at \in e.at..now

C1_Witness ==
    /\ FallbackRun(exec[1])
    /\ exec[1].pc = "done"
    /\ resp[1].status = 200

\* a credential has, in the snapshot, a disallow on AllModels or on the
\* scope that is until-less or unexpired at time t
HasLiveDisallow(snap, id, scope, t) ==
    \/ /\ <<id, AllModels>> \in DOMAIN snap.disallow
       /\ \/ snap.disallow[<<id, AllModels>>].until = NoUntil
          \/ snap.disallow[<<id, AllModels>>].until > t
    \/ /\ <<id, scope>> \in DOMAIN snap.disallow
       /\ \/ snap.disallow[<<id, scope>>].until = NoUntil
          \/ snap.disallow[<<id, scope>>].until > t

NoneEligible(e) ==
    \A entry \in SeqRange(e.snap.credentials) :
        ~entry.enabled \/ HasLiveDisallow(e.snap, entry.id, e.scope, e.at)

\* C6: when no credential is eligible at the start of execute, execute
\* returns 503 no_credentials_available and the attempt function is never
\* invoked.
C6_NoCredentials ==
    LET e == exec[1]
    IN (e.pc # "idle" /\ NoneEligible(e)) =>
        /\ e.tried = <<>>
        /\ e.pc \in {"fail", "done"}
        /\ e.pass.status = 503
        /\ e.pass.body = SyntheticBody("no_credentials_available")
        /\ e.pc = "done" =>
              /\ resp[1].kind = "error" /\ resp[1].status = 503
              /\ resp[1].body = SyntheticBody("no_credentials_available")

\* the all-dead scenario: one credential, disallowed AllModels / Dead
C6_Witness ==
    /\ exec[1].pc = "done"
    /\ Len(exec[1].snap.credentials) = 1
    /\ exec[1].snap.credentials[1].enabled
    /\ \E k \in DOMAIN exec[1].snap.disallow :
          k[2] = AllModels /\ exec[1].snap.disallow[k].level = "Dead"
    /\ resp[1].status = 503

\* the passthrough an attempt fails with
FailureOf(e, i) ==
    HandleGenerateAttempt(1, e.tried[i].cred, e.tried[i].o, e.stream,
                          e.scope, e.at).passthrough

\* C7: when the attempt of every eligible credential fails, execute returns
\* the passthrough error of the last credential attempted, and the handler
\* sends that error to the client.
C7_LastPassthrough ==
    LET e == exec[1]
    IN (e.pc \in {"fail", "done"} /\ e.tried # <<>> /\ e.ok = NoOk) =>
        /\ Len(e.tried) = Len(e.order)
        /\ e.pass = FailureOf(e, Len(e.tried))
        /\ e.pc = "done" =>
              /\ resp[1].kind = "error"
              /\ resp[1].status = FailureOf(e, Len(e.tried)).status
              /\ resp[1].body = FailureOf(e, Len(e.tried)).body
              /\ resp[1].ra = FailureOf(e, Len(e.tried)).ra

\* every credential failed, the first with 401 and the last with 429
C7_Witness ==
    /\ exec[1].pc = "done"
    /\ Len(exec[1].tried) >= 2
    /\ exec[1].ok = NoOk
    /\ exec[1].tried[1].o.status = 401
    /\ resp[1].status = 429
    /\ resp[1].body.cred = exec[1].tried[Len(exec[1].tried)].cred

\* C8: execute never invokes the attempt function with a credential that is
\* disabled or that has an unexpired or until-less disallow on AllModels or
\* on the requested scope (in the snapshot and at the time it started with).
C8_OnlyEligibleAttempted ==
    LET e == exec[1]
    IN \A i \in 1..Len(e.tried) :
        /\ \E entry \in SeqRange(e.snap.credentials) :
              entry.id = e.tried[i].cred /\ entry.enabled
        /\ ~HasLiveDisallow(e.snap, e.tried[i].cred, e.scope, e.at)

\* an attempt was made although the snapshot holds a disabled credential, a
\* credential with a live AllModels disallow and the requested scope is a
\* model
C8_Witness ==
    /\ exec[1].tried # <<>>
    /\ exec[1].scope \in Models
    /\ \E entry \in SeqRange(exec[1].snap.credentials) : ~entry.enabled
    /\ \E entry \in SeqRange(exec[1].snap.credentials) :
          /\ entry.enabled
          /\ <<entry.id, AllModels>> \in DOMAIN exec[1].snap.disallow
          /\ HasLiveDisallow(exec[1].snap, entry.id, exec[1].scope, exec[1].at)

WeightOf(snap, id) == EntryOf(snap, id).weight

\* the attempts of one call follow descending weight, ties by ascending id
AttemptsSorted(e) ==
    \A i, j \in 1..Len(e.tried) :
        i < j =>
            \/ WeightOf(e.snap, e.tried[i].cred) > WeightOf(e.snap, e.tried[j].cred)
            \/ /\ WeightOf(e.snap, e.tried[i].cred) = WeightOf(e.snap, e.tried[j].cred)
               /\ e.tried[i].cred < e.tried[j].cred

\* two calls never attempt two credentials in opposite orders
SameRelativeOrder(e, f) ==
    \A i, j \in 1..Len(e.tried) : \A k, l \in 1..Len(f.tried) :
        (i < j /\ e.tried[i].cred = f.tried[l].cred
               /\ e.tried[j].cred = f.tried[k].cred) => l < k

C9_OrderInvariant ==
    /\ \A c \in Callers :
          /\ AttemptsSorted(exec[c])
          /\ TriedCreds(exec[c]) = SubSeq(exec[c].order, 1, Len(exec[c].tried))
    /\ \A c, d \in Callers :
          (exec[c].snap = exec[d].snap /\ exec[c].scope = exec[d].scope)
              => SameRelativeOrder(exec[c], exec[d])

C9_OrderFixed ==
    \A c \in Callers : exec[c].pc = "loop" => exec'[c].order = exec[c].order

\* C9: eligible credentials are attempted in descending weight order, ties
\* by ascending credential id; the order does not change during the call;
\* two calls on the same snapshot and scope attempt credentials in the same
\* order.
C9_AttemptOrder == [](C9_OrderInvariant) /\ [][C9_OrderFixed]_vars

\* both calls tried three credentials of the same snapshot, two of them of
\* equal weight
C9_Witness ==
    /\ exec[1].snap = exec[2].snap
    /\ Len(exec[1].tried) = 3 /\ Len(exec[2].tried) = 3
    /\ \E i \in 1..2 :
          WeightOf(exec[1].snap, exec[1].tried[i].cred)
              = WeightOf(exec[1].snap, exec[1].tried[i + 1].cred)
    /\ \E i \in 1..2 :
          WeightOf(exec[1].snap, exec[1].tried[i].cred)
              > WeightOf(exec[1].snap, exec[1].tried[i + 1].cred)

\* the order execute fixed at its start, recomputed from the snapshot, the
\* scope and the time it started with
StartOrder(e) == AttemptOrder(e.snap, e.scope, e.at)

C10_FollowsStartSnapshot ==
    LET e == exec[1]
    IN e.pc # "idle" =>
        /\ TriedCreds(e) = SubSeq(StartOrder(e), 1, Len(e.tried))
        /\ (e.pc = "fail" /\ e.tried # <<>>) => Len(e.tried) = Len(StartOrder(e))

C10_SnapshotRead ==
    /\ (exec[1].pc = "idle" /\ exec'[1].pc # "idle") => exec'[1].snap \in {pool, pool'}
    /\ exec[1].pc # "idle" =>
          (exec'[1].snap = exec[1].snap /\ exec'[1].order = exec[1].order)

\* C10: an in-flight execute uses the snapshot it read at its start: a
\* replace between two attempts changes neither the credentials it still
\* attempts nor their order; a snapshot read returns the value before or
\* after a replace.
C10_InFlightSnapshot == [](C10_FollowsStartSnapshot) /\ [][C10_SnapshotRead]_vars

\* a replace happened between two attempts, and the later attempt used a
\* credential that the pool's snapshot at that moment would not offer
C10_Witness ==
    LET e == exec[1]
    IN /\ Len(e.tried) >= 2
       /\ e.ops[Len(e.ops) - 1] < e.ops[Len(e.ops)]
       /\ adminOps = e.ops[Len(e.ops)]
       /\ \A entry \in SeqRange(pool.credentials) :
             entry.id = e.tried[Len(e.tried)].cred => ~entry.enabled

(* ------------------- traffic records of one request -------------------- *)

UpRecords == SelectSeq(traffic, LAMBDA r : r.dir = "up" /\ r.req = 1)
DownRecords == SelectSeq(traffic, LAMBDA r : r.dir = "down" /\ r.req = 1)
StreamUpRecords == SelectSeq(UpRecords, LAMBDA r : r.stream)
StreamDownRecords == SelectSeq(DownRecords, LAMBDA r : r.stream)
SuccessUpRecords == SelectSeq(UpRecords, LAMBDA r : IsSuccess(r.status))

\* the request ended with a successful response
Succeeded ==
    /\ exec[1].pc = "done"
    /\ exec[1].ok # NoOk
    /\ resp[1].kind \in {"json", "stream"}
    /\ IsSuccess(resp[1].status)

\* nothing of the request is still running: a stream has ended and its
\* recorder tasks have finished
RecordersDone ==
    /\ st.recUp.pc \in {"none", "done"}
    /\ st.recDown.pc \in {"none", "done"}

Settled == exec[1].pc = "done" /\ st.pc \in {"none", "end"} /\ RecordersDone

\* the attempts before the last that got a non-2xx HTTP answer with a
\* readable body
AnsweredFailures(e) ==
    {i \in 1..(Len(e.tried) - 1) :
        e.tried[i].o.kind = "resp" /\ ~IsSuccess(e.tried[i].o.status)}

\* C2 as stated: a request that ends with a successful response has exactly
\* one upstream record in all, and one downstream record iff downstream_meta
\* was set, whatever number of credentials were attempted.
C2_OneUpstreamRecordInAll ==
    (Succeeded /\ Settled) =>
        /\ Len(UpRecords) = 1
        /\ Len(DownRecords) = IF exec[1].meta THEN 1 ELSE 0

\* C2: a request that ends with a successful response has exactly one
\* upstream record for the response it delivers, one more upstream record
\* for every earlier attempt that got a non-2xx HTTP answer, and exactly one
\* downstream record iff downstream_meta was set; in every dispatch path.
C2_RecordCount ==
    /\ Len(DownRecords) <= 1
    /\ Len(SuccessUpRecords) <= 1
    /\ (Succeeded /\ Settled) =>
          /\ Len(SuccessUpRecords) = 1
          /\ SuccessUpRecords[1].cred = exec[1].ok.cred
          /\ Len(UpRecords) = 1 + Cardinality(AnsweredFailures(exec[1]))
          /\ Len(DownRecords) = IF exec[1].meta THEN 1 ELSE 0

\* a transformed stream that succeeded on the second credential after the
\* first answered 429, with both recorders finished
C2_Witness ==
    /\ Succeeded /\ Settled
    /\ exec[1].plan = "transform" /\ exec[1].stream /\ exec[1].meta
    /\ Len(exec[1].tried) = 2
    /\ exec[1].tried[1].o.status = 429
    /\ Len(UpRecords) = 2
    /\ Len(DownRecords) = 1

\* C3 as stated: within one request the upstream record of the response is
\* emitted before the downstream record, in every dispatch path.
C3_UpstreamBeforeDownstream ==
    \A j \in 1..Len(traffic) :
        traffic[j].dir = "down" =>
            \E i \in 1..(j - 1) :
                /\ traffic[i].dir = "up"
                /\ traffic[i].req = traffic[j].req
                /\ IsSuccess(traffic[i].status)

Front(seq) == SubSeq(seq, 1, Len(seq) - 1)

\* C4: in a native stream the chunks delivered to the client are the items
\* the upstream yielded, in order, nothing lost, duplicated or altered (the
\* one chunk still waiting for room in the recorder channel aside), and a
\* stream that ended without a cancel has delivered all of them, whatever
\* the recorder did.  A client that cancelled got a prefix that misses at
\* most the chunk that was waiting.
C4_NativeStreamFidelity ==
    st.mode = "native" =>
        /\ ~st.cancelled =>
              st.delivered = IF st.hold # NoItem THEN Front(st.upSeq) ELSE st.upSeq
        /\ st.cancelled => st.delivered \in {st.upSeq, Front(st.upSeq)}
        /\ (st.pc = "end" /\ ~st.cancelled) => st.delivered = st.upSeq

\* the stream ended with [DONE] delivered last, after the forwarder had to
\* wait for the full channel and the recorder then stopped
C4_Witness ==
    /\ st.mode = "native" /\ st.pc = "end" /\ ~st.cancelled
    /\ st.waited
    /\ st.recUp.pc = "stopped"
    /\ Len(st.delivered) = MaxChunks
    /\ st.delivered[MaxChunks] = "data:[DONE]"
    /\ st.delivered[1] = "data:A"

Chunks(seq) == SelectSeq(seq, LAMBDA x : x # "ERR")

\* a recorder that has emitted had read its channel to the end, emitted
\* once, and its body is made of what was forwarded
C5_DrainThenEmit ==
    /\ st.recUp.pc = "done" =>
          /\ ~st.txUp /\ st.chUp = <<>>
          /\ st.recUp.got = st.sentUp
    /\ st.recDown.pc = "done" =>
          /\ ~st.txDown /\ st.chDown = <<>>
          /\ st.recDown.got = Chunks(st.delivered)
    /\ st.mode = "native" => st.sentUp = Chunks(st.delivered)
    /\ Len(StreamUpRecords) = IF st.recUp.pc = "done" THEN 1 ELSE 0
    /\ Len(StreamDownRecords) =
          IF exec[1].meta /\ ((st.mode = "native" /\ st.recUp.pc = "done")
                              \/ (st.mode = "transform" /\ st.recDown.pc = "done"))
          THEN 1 ELSE 0
    /\ \A i \in 1..Len(StreamUpRecords) :
          StreamUpRecords[i].body = StreamBodyOf(BodyOf(st.sentUp))
    /\ \A i \in 1..Len(StreamDownRecords) :
          StreamDownRecords[i].body =
              StreamBodyOf(BodyOf(IF st.mode = "native" THEN st.sentUp
                                  ELSE Chunks(st.delivered)))

\* C5: when the client drops a streaming response, every recorder task of
\* the request reads its channel to the end and then emits its record
\* exactly once (the downstream record only when downstream_meta is set),
\* with a body made of what was forwarded before the cancel; no recorder
\* emits before its channel is closed, and every recorder finishes.
C5_CancelStillRecords ==
    /\ [](C5_DrainThenEmit)
    /\ (st.cancelled ~> (st.recUp.pc = "done" /\ st.recDown.pc \in {"none", "done"}))

\* a transformed stream cancelled while its second frame waited for room:
\* both recorders emitted, the downstream body holds the one frame delivered
C5_Witness ==
    /\ st.cancelled /\ st.mode = "transform" /\ exec[1].meta
    /\ st.recUp.pc = "done" /\ st.recDown.pc = "done"
    /\ st.upSeq = <<"data:B">>
    /\ st.delivered = <<"data:b1">>
    /\ Len(StreamUpRecords) = 1 /\ Len(StreamDownRecords) = 1
    /\ StreamDownRecords[1].body.data = <<"b1">>
    /\ StreamUpRecords[1].body.data = <<"B">>

(* ------------------------ marks and the pool --------------------------- *)

\* the mark the i-th attempt of an execute returned (level "none" for a
\* success or a failure without mark)
MarkOf(c, e, i) ==
    HandleGenerateAttempt(c, e.tried[i].cred, e.tried[i].o, e.stream,
                          e.scope, e.at).mark

HasEntry(snap, id, mark) ==
    /\ <<id, mark.scope>> \in DOMAIN snap.disallow
    /\ snap.disallow[<<id, mark.scope>>].level = mark.level
    /\ snap.disallow[<<id, mark.scope>>].reason = mark.reason

\* the step is an attempt of caller c
AttemptStep(c) == Len(exec'[c].tried) = Len(exec[c].tried) + 1

\* the step is the start of an execute of caller c
StartStep(c) == exec[c].pc = "idle" /\ exec'[c].pc # "idle"

\* the mark of a failed attempt is in the pool when the attempt is over
C11_MarkApplied ==
    \A c \in Callers :
        (AttemptStep(c) /\ MarkOf(c, exec'[c], Len(exec'[c].tried)).level # "none") =>
            HasEntry(pool', exec'[c].tried[Len(exec'[c].tried)].cred,
                     MarkOf(c, exec'[c], Len(exec'[c].tried)))

\* an execute that starts sees the marks of every attempt the other caller
\* has made, and leaves the marked credentials out of its order
C11_VisibleAtStart ==
    \A c, d \in Callers :
        (c # d /\ StartStep(d)) =>
            \A i \in 1..Len(exec[c].tried) :
                (MarkOf(c, exec[c], i).level # "none"
                    /\ exec'[d].scope = exec[c].scope) =>
                    /\ HasEntry(exec'[d].snap, exec[c].tried[i].cred, MarkOf(c, exec[c], i))
                    /\ \A k \in 1..Len(exec'[d].order) :
                          exec'[d].order[k] # exec[c].tried[i].cred

\* C11: within one execute the mark of a failed attempt is applied to the
\* pool snapshot before the attempt function runs for the next credential,
\* so every execute that starts after that sees the mark.
C11_MarkBeforeNextAttempt == [][C11_MarkApplied /\ C11_VisibleAtStart]_vars

\* caller 1 got 429 from its first credential and has made its next
\* attempt; caller 2 started afterwards with that Cooldown in its snapshot
C11_Witness ==
    /\ Len(exec[1].tried) >= 2
    /\ exec[1].tried[1].o.status = 429
    /\ exec[2].pc # "idle"
    /\ <<exec[1].tried[1].cred, "m1">> \in DOMAIN exec[2].snap.disallow
    /\ exec[2].snap.disallow[<<exec[1].tried[1].cred, "m1">>].level = "Cooldown"
    /\ exec[2].order # <<>>
    /\ \A k \in 1..Len(exec[2].order) : exec[2].order[k] # exec[1].tried[1].cred

\* the seconds a Retry-After header gives at time t, 60 when it is absent
\* or unusable
CooldownSeconds(ra, t) ==
    CASE ra.k = "secs" -> ra.v
      [] ra.k = "date" /\ ra.v >= t -> ra.v - t
      [] OTHER -> 60

\* the pool entry the claim expects after a non-2xx answer at time t; level
\* "none" where it expects no mark
ExpectedEntry(status, ra, t) ==
    CASE status \in {401, 403} ->
            [level |-> "Dead", until |-> NoUntil, reason |-> "auth_error",
             updated_at |-> t]
      [] status = 429 ->
            [level |-> "Cooldown", until |-> t + CooldownSeconds(ra, t),
             reason |-> "rate_limit", updated_at |-> t]
      [] status \in {502, 503, 504} ->
            [level |-> "Transient", until |-> t + 30,
             reason |-> "upstream_unavailable", updated_at |-> t]
      [] OTHER ->
            [level |-> "none", until |-> NoUntil, reason |-> "", updated_at |-> t]

\* C12: the mark of a non-2xx answer is Dead without expiry and reason
\* "auth_error" for 401 and 403, Cooldown for 429 lasting the seconds of
\* Retry-After or 60 when the header is absent or unusable, Transient for 30
\* seconds for 502, 503 and 504, and none for every other status.
C12_StatusToMark ==
    LET e == exec[1]
    IN \A i \in 1..Len(e.tried) :
          LET o == e.tried[i].o
              key == <<e.tried[i].cred, e.scope>>
              want == ExpectedEntry(o.status, o.ra, e.at)
          IN (o.kind = "resp" /\ ~IsSuccess(o.status)) =>
                IF want.level = "none"
                THEN key \notin DOMAIN pool.disallow
                ELSE key \in DOMAIN pool.disallow /\ pool.disallow[key] = want

\* the first credential answered 429 with a Retry-After date five seconds
\* ahead, the second answered 404 and got no mark
C12_Witness ==
    /\ Len(exec[1].tried) = 2
    /\ exec[1].tried[1].o = Outcome("resp", 429, RaDate(StartTime + 5))
    /\ exec[1].tried[2].o.status = 404
    /\ pool.disallow[<<exec[1].tried[1].cred, "m1">>].until = StartTime + 5
    /\ <<exec[1].tried[2].cred, "m1">> \notin DOMAIN pool.disallow

NetworkFailed(o) == o.kind \in {"senderr", "bodyerr"}

\* C13: a send (DNS, connect) or body-read failure of an attempt puts a
\* Transient mark on the credential at the scope of the request, the loop
\* goes on with the next eligible credential, and the client gets the 503 of
\* the failure only when no eligible credential is left.
C13_NetworkFailureTransient ==
    LET e == exec[1]
        n == Len(e.tried)
    IN /\ \A i \in 1..n :
             NetworkFailed(e.tried[i].o) =>
                /\ <<e.tried[i].cred, e.scope>> \in DOMAIN pool.disallow
                /\ pool.disallow[<<e.tried[i].cred, e.scope>>] =
                      [level |-> "Transient", until |-> e.at + 30,
                       reason |-> "network_error", updated_at |-> e.at]
                /\ (i < Len(e.order) /\ n = i) => e.pc = "loop"
       /\ (resp[1].kind = "error" /\ resp[1].body = SyntheticBody("network_error")) =>
             /\ resp[1].status = 503
             /\ n = Len(e.order)
             /\ NetworkFailed(e.tried[n].o)
       /\ (e.pc = "done" /\ n > 0 /\ n < Len(e.order)) => resp[1].kind = "json"

\* the body of the first answer could not be read and the second send
\* failed: both credentials are Transient and the client got the 503
C13_Witness ==
    /\ exec[1].pc = "done"
    /\ Len(exec[1].tried) = 2
    /\ exec[1].tried[1].o.kind = "bodyerr"
    /\ exec[1].tried[2].o.kind = "senderr"
    /\ resp[1].status = 503
    /\ \A id \in {1, 2} : pool.disallow[<<id, "m1">>].level = "Transient"

\* C14: when the native call succeeded and the upstream JSON body cannot be
\* parsed, or the mapped value cannot be serialized, the client gets 503
\* service_unavailable and the credential that served the call gets no
\* disallow mark.
C14_TransformErrorNoMark ==
    LET e == exec[1]
    IN (e.pc = "done" /\ e.plan = "transform" /\ e.ok.kind = "json"
            /\ resp[1].kind # "json") =>
          /\ resp[1].kind = "error"
          /\ resp[1].status = 503
          /\ resp[1].body \in {SyntheticBody("parse_error"),
                                SyntheticBody("serialize_error")}
          /\ \A scope \in Scopes : <<e.ok.cred, scope>> \notin DOMAIN pool.disallow

\* the second credential answered 200 after the first answered 429, the
\* mapped value could not be serialized, and only the first is marked
C14_Witness ==
    /\ exec[1].pc = "done" /\ exec[1].plan = "transform"
    /\ Len(exec[1].tried) = 2
    /\ exec[1].ok.cred = exec[1].tried[2].cred
    /\ resp[1].status = 503
    /\ resp[1].body = SyntheticBody("serialize_error")
    /\ DOMAIN pool.disallow = {<<exec[1].tried[1].cred, "m1">>}

\* C15: when a non-2xx upstream answer is what the client gets, the client
\* gets the upstream's status and body unchanged and the upstream's headers
\* without the hop-by-hop ones.
C15_PassthroughVerbatim ==
    LET e == exec[1]
        n == Len(e.tried)
    IN (e.pc = "done" /\ resp[1].kind = "error" /\ n > 0
            /\ e.tried[n].o.kind = "resp") =>
          /\ resp[1].status = e.tried[n].o.status
          /\ resp[1].body = UpstreamBody(e.tried[n].cred, e.tried[n].o.status)
          /\ resp[1].ra = e.tried[n].o.ra
          /\ resp[1].headers = e.tried[n].o.headers \ {"content-length", "transfer-encoding"}

(* ------------------------------ isolation ------------------------------ *)

\* the snapshot the calls started from: storage does not change while the
\* two callers run
SnapshotBefore == RefreshProviderPool(Tables, ThisProvider)

AllFinished == \A c \in Callers : exec[c].pc = "done"

\* no attempt made so far returned a Dead or a Cooldown mark
NoDeadOrCooldownReturned ==
    \A c \in Callers : \A i \in 1..Len(exec[c].tried) :
        MarkOf(c, exec[c], i).level \notin {"Dead", "Cooldown"}

AttemptedKeys ==
    UNION {{<<exec[c].tried[i].cred, exec[c].scope>> : i \in 1..Len(exec[c].tried)} :
              c \in Callers}

MarkedAtAllModels(id) ==
    \E c \in Callers : \E i \in 1..Len(exec[c].tried) :
        /\ exec[c].scope = AllModels
        /\ exec[c].tried[i].cred = id
        /\ MarkOf(c, exec[c], i).level # "none"

C16_ModelScopeCase ==
    /\ AllFinished /\ NoDeadOrCooldownReturned
    /\ \A c \in Callers : Len(exec[c].tried) >= 1 /\ exec[c].scope = "m1"
    /\ <<1, "m1">> \in DOMAIN SnapshotBefore.disallow
    /\ <<1, "m1">> \notin DOMAIN pool.disallow
    /\ <<1, "m2">> \in DOMAIN pool.disallow
    /\ \E k \in DOMAIN pool.disallow :
          k \notin DOMAIN SnapshotBefore.disallow /\ pool.disallow[k].level = "Transient"

(* ------------------------------- expiry -------------------------------- *)

Expired(entry, t) == entry.until # NoUntil /\ entry.until <= t

\* an execute takes a credential whose only disallows on AllModels or on
\* the scope are expired, one of them a Cooldown
C17_ExpiredIsEligible ==
    LET e == exec[1]
    IN e.pc # "idle" =>
        \A k \in DOMAIN e.snap.disallow :
            (/\ e.snap.disallow[k].level = "Cooldown"
             /\ k[2] \in {AllModels, e.scope}
             /\ \A k2 \in DOMAIN e.snap.disallow :
                   (k2[1] = k[1] /\ k2[2] \in {AllModels, e.scope}) =>
                       Expired(e.snap.disallow[k2], e.at)
             /\ \E c \in SeqRange(e.snap.credentials) : c.id = k[1] /\ c.enabled) =>
                \E j \in 1..Len(e.order) : e.order[j] = k[1]

\* an expired Cooldown entry is in the pool after every step that is not an
\* attempt with its credential
C17_ExpiredStays ==
    \A k \in DOMAIN pool.disallow :
        (pool.disallow[k].level = "Cooldown" /\ Expired(pool.disallow[k], now)) =>
            \/ k \in DOMAIN pool'.disallow /\ pool'.disallow[k] = pool.disallow[k]
            \/ /\ AttemptStep(1)
               /\ exec'[1].tried[Len(exec'[1].tried)].cred = k[1]

\* C17: a credential whose Cooldown entry has an `until` in the past is
\* eligible for the next execute, and the entry stays in the snapshot at
\* least until a success (or a new mark) for the credential is emitted:
\* neither the passing of time nor the start of an execute removes it.
C17_ExpiryKeepsEntry == [](C17_ExpiredIsEligible) /\ [][C17_ExpiredStays]_vars

\* time passed the `until` of a Cooldown; the next execute attempted the
\* credential, got a 500, and the entry is still in the pool
C17_Witness ==
    /\ now > StartTime
    /\ exec[1].pc = "done"
    /\ \E i \in 1..Len(exec[1].tried) :
          LET k == <<exec[1].tried[i].cred, "m1">>
          IN /\ exec[1].tried[i].o.status = 500
             /\ k \in DOMAIN pool.disallow
             /\ pool.disallow[k].level = "Cooldown"
             /\ pool.disallow[k].until > StartTime
             /\ pool.disallow[k].until <= exec[1].at

(* ------------------------------ handler -------------------------------- *)

ProviderCalled(e) == e.pc \in {"loop", "ok", "fail"} \/ e.tried # <<>> \/ e.order # <<>>

\* C18 as stated: a request with a missing, unknown or disabled key is
\* rejected as unauthorized whatever its provider name, path and body, and
\* the provider is never called for it.
C18_AuthBeforeLookup ==
    LET e == exec[1]
    IN (e.req # NoRequest /\ ~(e.req.key \in {"k-valid"})) =>
          /\ ~ProviderCalled(e)
          /\ e.pc = "done" => resp[1].status = 401

(* --------------------------- reconfiguration --------------------------- *)

\* C19 as stated: after the bind address changed, the streams in flight on
\* the old listener go on, and the new address accepts connections as soon
\* as the serve loop has seen the change, without waiting for those streams:
\* the server is never without a listener while a stream is in flight.
C19_RebindWithoutWaiting == ~(srv.phase = "draining" /\ srv.inflight > 0)

\* put_config call p takes a step
PutStep(p) == srv'.put[p] # srv.put[p]

\* put_config call p takes the step that leads it from `from` to `to`
PutMoves(p, from, to) == srv.put[p].pc = from /\ srv'.put[p].pc = to

\* put_config call p answers 200
PutSucceeds(p) ==
    /\ srv.put[p].pc \in {"set_config", "bind_send"}
    /\ srv'.put[p].pc = "done" /\ srv'.put[p].status = 200

\* the snapshot a put_config loads is that of the effective storage: the
\* database of the desired DSN when that differs from the configured one
\* that the call read, else the one of the handle that the call read
C20_LoadsEffectiveStorage ==
    \A p \in PutHandlers :
        PutMoves(p, "load_snapshot", "replace_snapshot") =>
            LET h == srv.put[p]
                from == IF h.desired.dsn # h.current_dsn THEN h.desired.dsn ELSE h.storage
            IN srv'.put[p].snap = db[from]

\* what each write of put_config changes, against the DSN and the
\* configuration that the call read at its start, and which writes a call
\* that answers 200 has made
C20_PutConfigStep ==
    \A p \in PutHandlers :
        LET h == srv.put[p]
            want == h.desired
            dsnChanged == want.dsn # h.current_dsn
            bindChanged == want.host # h.was.host \/ want.port # h.was.port
        IN /\ PutMoves(p, "replace_snapshot", "apply_pools") =>
                 adm'.auth = h.snap.keys /\ adm'.users_by_id = h.snap.users
           /\ PutMoves(p, "apply_pools", "provider_ids") =>
                 /\ srv'.rebuilds = srv.rebuilds + 1
                 /\ ThisProvider \in DOMAIN h.snap.providers =>
                       pool' = RefreshProviderPool(h.snap, ThisProvider)
                 /\ OtherProvider \in DOMAIN h.snap.providers =>
                       reg'.other = RefreshProviderPool(h.snap, OtherProvider)
           /\ PutMoves(p, "set_storage", "set_config") =>
                 /\ dsnChanged /\ h.connected
                 /\ want.dsn \in {"sqlite:a", "sqlite:b"}
                 /\ srv'.handles = srv.handles + 1
                 /\ srv'.handleDsn = want.dsn
           /\ (srv.put[p].pc = "set_config" /\ srv'.put[p].pc \in {"bind_send", "done"}
                  /\ srv'.put[p].status # 500) =>
                 srv'.config = want
           /\ (PutMoves(p, "bind_send", "done") /\ srv'.put[p].status = 200) =>
                 /\ bindChanged
                 /\ srv'.sends = srv.sends + 1
                 /\ srv'.bind = <<want.host, want.port>>
           /\ PutSucceeds(p) =>
                 /\ h.connected <=> dsnChanged
                 /\ "set_storage" \in srv'.put[p].steps <=> dsnChanged
                 /\ "bind_send" \in srv'.put[p].steps <=> bindChanged
                 /\ {"replace_snapshot", "apply_pools", "provider_ids",
                     "provider_names", "set_config"} \subseteq srv'.put[p].steps
           /\ (PutStep(p) /\ srv.put[p].pc \notin {"upsert_global_config",
                    "ensure_admin_user", "ensure_admin_key"}) => db' = db
           /\ (PutStep(p) /\ srv.put[p].pc # "set_storage") =>
                 srv'.handles = srv.handles /\ srv'.handleDsn = srv.handleDsn
           /\ (PutStep(p) /\ srv.put[p].pc # "bind_send") =>
                 srv'.sends = srv.sends /\ srv'.bind = srv.bind
           /\ (PutStep(p) /\ srv.put[p].pc # "apply_pools") =>
                 srv'.rebuilds = srv.rebuilds /\ pool' = pool /\ reg'.other = reg.other
           /\ (PutStep(p) /\ srv.put[p].pc # "replace_snapshot") => adm'.auth = adm.auth

\* C20: a successful PUT /config validates and connects the DSN and
\* replaces the storage handle iff the DSN changed, sends the new host:port
\* on the bind watch channel iff host or port changed, and rebuilds pools
\* and auth map from the effective storage on every call; "changed" is
\* against the DSN and the configuration that the call read at its start.
C20_PutConfig == [][C20_LoadsEffectiveStorage /\ C20_PutConfigStep]_vars

\* two calls succeeded: one changed the DSN only, one the port only; the
\* handle was replaced once, the bind sent once, and the pools rebuilt twice
\* from the second database
C20_Witness ==
    /\ srv.puts = 2
    /\ \A p \in PutHandlers : srv.put[p].pc \in {"idle", "done"}
    /\ \E p \in PutHandlers :
          /\ srv.put[p].pc = "done" /\ srv.put[p].status = 200
          /\ "set_storage" \in srv.put[p].steps /\ "bind_send" \notin srv.put[p].steps
    /\ \E p \in PutHandlers :
          /\ srv.put[p].pc = "done" /\ srv.put[p].status = 200
          /\ "bind_send" \in srv.put[p].steps /\ "set_storage" \notin srv.put[p].steps
    /\ srv.handles = 1 /\ srv.handleDsn = "sqlite:b" /\ srv.config.dsn = "sqlite:b"
    /\ srv.sends = 1 /\ srv.bind = <<"127.0.0.1", "9090">>
    /\ srv.rebuilds = 2
    /\ Len(pool.credentials) = 1 /\ pool.credentials[1].id = 3
    /\ adm.auth = WithAdminKey(OtherKeys, "K")

\* C21 as stated: after a successful PUT /config that changed the
\* forward-proxy URL, a proxy request handled afterwards carries the new URL
\* in its call context: whenever the handler builds a call context, its
\* proxy is the one of the configuration in force.
C21_ContextCarriesConfiguredProxyStep ==
    StartStep(1) => exec'[1].ctx = srv.config.proxy

C21_ContextCarriesConfiguredProxy == [][C21_ContextCarriesConfiguredProxyStep]_vars

(* ----------------------- concurrent admin handlers --------------------- *)

AdminsDone == \A a \in Admins : adm.h[a].pc \in {"idle", "done"}

\* C22 as stated: when several admin mutations have run concurrently and
\* all of them have finished, the in-memory pool and the auth map are those
\* built from the final database contents.
C22_MemoryMatchesDatabase ==
    AdminsDone =>
        /\ pool = RefreshProviderPool(Tables, ThisProvider)
        /\ adm.auth = Tables.keys

\* C23 as stated: a snapshot reload that changes both the auth map and the
\* pool replaces them atomically: no request observes the auth map of the
\* reload together with the pool from before it, or the pool of the reload
\* together with the auth map from before it.
C23_ReloadAtomic ==
    \A a \in Admins :
        LET h == adm.h[a]
        IN (/\ h.op = "reload"
            /\ h.pc \in {"apply_pools", "provider_ids", "provider_names", "done"}
            /\ h.keys # h.was.auth /\ PoolOf(h) # h.was.pool
            /\ ProviderCalled(exec[1])) =>
              /\ ~(exec[1].auth = h.keys /\ exec[1].snap = h.was.pool)
              /\ ~(exec[1].auth = h.was.auth /\ exec[1].snap = PoolOf(h))

(* ------------------------------ admin guard ---------------------------- *)

\* the request carries the admin key: as the x-admin-key value, or as the
\* token of an Authorization bearer value
CarriesAdminKey(req, admin_key) ==
    \/ /\ req.x_admin_key.kind = "text" /\ req.x_admin_key.scheme = ""
       /\ req.x_admin_key.token = admin_key
    \/ /\ req.authorization.kind = "text"
       /\ req.authorization.scheme \in {"Bearer", "bearer", "BEARER"}
       /\ req.authorization.token = admin_key

\* storage, pool, auth map, configuration and bind address are those of
\* start-up
Untouched ==
    /\ db = StoreOf(TwoRows)
    /\ pool = RefreshProviderPool(db[InitialConfig.dsn], ThisProvider)
    /\ adm.auth = AuthKeys /\ adm.users_by_id = InitialUsers
    /\ srv = InitialServer

\* C24 as stated: a request to an admin route that does not carry the admin
\* key is answered 401, and nothing is read or changed for it.
C24_UnauthorizedIs401 ==
    LET h == adm.h[1]
    IN (h.req.route # "" /\ ~CarriesAdminKey(h.req, srv.config.admin_key)) =>
          /\ h.pc \in {"received", "extracted", "done"} /\ Untouched
          /\ h.pc = "done" => h.answer = 401

\* C24, amended: a request to an admin route that does not carry the admin
\* key is never served and nothing is read or changed for it; it is
\* answered 401 when its path id and JSON body can be extracted, and with
\* the extractor's rejection (400) otherwise.
C24_UnauthorizedNotServed ==
    LET h == adm.h[1]
    IN (h.req.route # "" /\ ~CarriesAdminKey(h.req, srv.config.admin_key)) =>
          /\ h.pc \in {"received", "extracted", "done"} /\ Untouched
          /\ h.pc = "done" =>
                h.answer = IF h.req.route \in ExtractingRoutes /\ h.req.body = "bad_json"
                           THEN 400 ELSE 401

\* a key-creating request with a wrong bearer token was answered 401, and
\* the request is over with the tables as they were
C24_Witness ==
    LET h == adm.h[1]
    IN /\ h.pc = "done" /\ h.answer = 401 /\ h.req.route = "keys"
       /\ h.req.x_admin_key = NoHeader
       /\ h.req.authorization = HeaderValue("Bearer", " ", "X", FALSE)
       /\ Untouched

(* ------------------------------ state sink ----------------------------- *)

\* the events the actor took off the queue, in order, those of them it
\* wrote to storage, and those it dropped on a failed write
TakenEvents == [i \in 1..Len(bus.taken) |-> bus.taken[i].event]

IsStored(t) == t.io = "ok"

IsDropped(t) == t.io = "err"

StoredEvents ==
    LET kept == SelectSeq(bus.taken, IsStored)
    IN [i \in 1..Len(kept) |-> kept[i].event]

DroppedEvents ==
    LET lost == SelectSeq(bus.taken, IsDropped)
    IN [i \in 1..Len(lost) |-> lost[i].event]

\* the event the pool operation holds while it retries its enqueue
HeldEvents == IF bus.op.pc = "retrying" THEN <<bus.op.event>> ELSE <<>>

\* every event whose mark was applied is stored, queued, or held by the
\* operation that is retrying its enqueue, in the order of application
Accounted == bus.applied = StoredEvents \o bus.queue \o HeldEvents

\* every event whose mark was applied was taken by the actor, is queued, or
\* is held by the operation that is retrying its enqueue, in the order of
\* application: the pool operation loses none
HandedToBus == bus.applied = TakenEvents \o bus.queue \o HeldEvents

\* the mark of the operation's event is in the pool's snapshot
MarkInMemory == HasEntry(pool, bus.op.event.cred, bus.op.mark)

\* C25 as stated: a pool state event is never lost: on a full state queue
\* the pool operation waits at most 100 ms, then applies the mark in memory
\* regardless, and keeps retrying the enqueue until the event is accepted.
C25_StateEventNeverLost ==
    /\ [](Accounted /\ bus.op.waited <= BlockMs
          /\ (bus.op.pc = "retrying" => bus.op.waited = BlockMs /\ MarkInMemory))
    /\ ((bus.op.pc = "retrying") ~> (bus.op.pc = "idle" /\ Accounted))

\* C25: a pool operation never loses its state event: on a full state
\* queue it waits at most 100 ms, then applies the mark in memory
\* regardless, and keeps retrying the enqueue until the event is accepted.
\* An accepted event is written to storage by the bus, or dropped by the
\* bus when that write fails, and no event is dropped otherwise.
C25_PoolNeverLosesEvent ==
    /\ [](HandedToBus /\ bus.op.waited <= BlockMs
          /\ (bus.op.pc = "retrying" => bus.op.waited = BlockMs /\ MarkInMemory)
          /\ (DroppedEvents = <<>> => Accounted))
    /\ ((bus.op.pc = "retrying") ~> (bus.op.pc = "idle" /\ HandedToBus))

\* an operation waited the 100 ms on the full queue, applied its mark, had
\* an enqueue refused, and its event has been accepted and stored, after
\* the bus had dropped the event before it on a failed write
C25_Witness ==
    /\ bus.op.pc = "idle" /\ bus.op.waited = BlockMs /\ bus.op.retries > 0
    /\ MarkInMemory
    /\ TakenEvents = bus.applied /\ Len(bus.applied) = 2
    /\ bus.taken[1].io = "err" /\ bus.taken[2].io = "ok"
    /\ StoredEvents = <<bus.op.event>>

(* ------------------------- transformed streams ------------------------- *)

\* what a transformed stream owes the client for the upstream items so
\* far: the frames of every chunk, and every error item, in order
RECURSIVE Expected(_)
Expected(seq) ==
    IF seq = <<>> THEN <<>>
    ELSE (IF Head(seq) = "ERR" THEN <<"ERR">> ELSE TransformFrames(Head(seq)))
         \o Expected(Tail(seq))

IsPrefix(a, b) == Len(a) <= Len(b) /\ a = SubSeq(b, 1, Len(a))

\* what the forwarder of a transformed stream still holds for the client
InHand ==
    (IF st.outHold # NoItem THEN <<st.outHold>> ELSE <<>>)
    \o st.pending
    \o (IF st.hold # NoItem THEN TransformFrames(st.hold) ELSE <<>>)

\* C26: the response of a transformed stream is the same whether the
\* recorders run, have finished or have stopped: the status is the
\* upstream's, the frames delivered are those owed for the upstream items,
\* in order, a stream that ended without a cancel has delivered all of
\* them, and a stopped recorder never ends the stream.
C26_RecordingNeverAltersResponse ==
    st.mode = "transform" =>
        /\ resp[1].kind = "stream" /\ resp[1].status = exec[1].ok.status
        /\ IsPrefix(st.delivered, Expected(st.upSeq))
        /\ ~st.cancelled => st.delivered \o InHand = Expected(st.upSeq)
        /\ (st.pc = "end" /\ ~st.cancelled) => st.delivered = Expected(st.upSeq)
        /\ (st.pc = "end" /\ ~st.cancelled) => st.upEnded

\* both recorders stopped before any chunk came, and the stream went on to
\* deliver the three frames of two chunks and ended with the upstream
C26_Witness ==
    /\ st.mode = "transform" /\ st.pc = "end" /\ ~st.cancelled
    /\ st.recUp.pc = "stopped" /\ st.recDown.pc = "stopped"
    /\ st.sentUp = <<>>
    /\ st.upSeq = <<"data:A", "data:B">>
    /\ st.delivered = <<"data:a", "data:b1", "data:b2">>

\* the upstream items without the frames whose payload does not parse
WellFormed(seq) == SelectSeq(seq, LAMBDA x : x # "data:{")

\* C29: in a transformed stream a frame whose payload is not valid JSON is
\* skipped: it yields no error item and does not end the stream, and the
\* frames of the well-formed chunks around it are delivered in order.
C29_MalformedFrameSkipped ==
    st.mode = "transform" =>
        /\ ~st.cancelled => st.delivered \o InHand = Expected(WellFormed(st.upSeq))
        /\ (st.pc = "end" /\ ~st.cancelled) =>
              st.upEnded /\ st.delivered = Expected(WellFormed(st.upSeq))
        /\ Len(SelectSeq(st.delivered, LAMBDA x : x = "ERR"))
              <= Len(SelectSeq(st.upSeq, LAMBDA x : x = "ERR"))

\* a malformed frame came first and a well-formed chunk after it: the
\* stream ended with the frames of that chunk delivered, and nothing else
C29_Witness ==
    /\ st.mode = "transform" /\ st.pc = "end" /\ ~st.cancelled
    /\ st.upSeq = <<"data:{", "data:B">>
    /\ st.delivered = <<"data:b1", "data:b2">>

(* ---------------------------- dispatch plans --------------------------- *)

\* C27: for a transformed request the usage kind of the upstream recorder
\* is that of the dialect of the request sent upstream, whatever tag the
\* planner attached: Gemini usage when a Gemini request was handed to
\* call_native, Claude usage when a Claude request was, and none for
\* count-tokens, models-list and models-get plans.
C27_UpstreamUsageOfTarget ==
    (dsp.pc \in {"handed", "called"} /\ dsp.plan.kind = "Transform") =>
        /\ dsp.plan.op \in {"CountTokens", "ModelsList", "ModelsGet"} =>
                dsp.usage = "None"
        /\ (dsp.plan.op \in {"GenerateContent", "StreamContent"}
                /\ DialectOf(dsp.handed) = "Gemini") => dsp.usage = "GeminiGenerate"
        /\ (dsp.plan.op \in {"GenerateContent", "StreamContent"}
                /\ DialectOf(dsp.handed) = "Claude") => dsp.usage = "ClaudeMessage"

\* aistudio planned a Claude messages stream with the Claude tag, and the
\* upstream recorder of the Gemini stream it became keeps Gemini usage
C27_Witness ==
    /\ dsp.pc = "called" /\ dsp.provider = "aistudio"
    /\ dsp.req = "ClaudeMessagesStream"
    /\ dsp.plan.variant = "Claude2Gemini"
    /\ dsp.plan.usage = "ClaudeMessage"
    /\ dsp.handed = "GeminiGenerateStream"
    /\ dsp.usage = "GeminiGenerate"

\* the planner's step: it leaves a Native plan of the request itself or a
\* Transform plan, and touches nothing but the plan: no storage, no traffic
\* record, no queue, no pool, no upstream call
C28_PlanStep ==
    (dsp.pc = "received" /\ dsp'.pc = "planned") =>
        /\ dsp'.plan.kind \in {"Native", "Transform"}
        /\ dsp'.plan.kind = "Native" => dsp'.plan.req = dsp.req
        /\ dsp' = [dsp EXCEPT !.pc = "planned", !.plan = dsp'.plan]
        /\ UNCHANGED <<db, pool, now, ticks, adminOps, exec, resp, traffic, st, srv,
                       adm, bus, usg, loc, fetch, reg>>

\* what call_native is handed is a variant the provider implements
C28_HandedIsNative ==
    /\ (dsp.provider # "" /\ dsp.pc \in {"handed", "called"}) =>
            /\ CallNativeImplements(dsp.provider, dsp.handed)
            /\ dsp.plan.kind = "Native" => dsp.handed = dsp.req
            /\ dsp.plan.kind = "Transform" => dsp.handed # dsp.req
    /\ dsp.pc = "called" => dsp.result = "handled"

\* C28: the planners of aistudio and vertexexpress return a plan for every
\* ProxyRequest variant in one step that performs no I/O, and the request
\* handed to call_native, the original one of a Native plan or the
\* translated one of a Transform plan, is a variant the provider's
\* call_native implements: its not-implemented branch is never reached.
C28_PlannedRequestIsNative == []C28_HandedIsNative /\ [][C28_PlanStep]_vars

\* vertexexpress planned a Claude messages request as the Claude2Gemini
\* transform, and its call_native handled the Gemini request it became
C28_Witness ==
    /\ dsp.pc = "called" /\ dsp.provider = "vertexexpress"
    /\ dsp.req = "ClaudeMessages" /\ dsp.plan.kind = "Transform"
    /\ dsp.plan.variant = "Claude2Gemini"
    /\ dsp.handed = "GeminiGenerate" /\ dsp.result = "handled"

(* ------------------------- stream usage states ------------------------- *)

\* the usage of the last frame of a sequence that carries usage
RECURSIVE LastUsage(_)
LastUsage(frames) ==
    IF frames = <<>> THEN NoUsage
    ELSE IF frames[Len(frames)].kind = "usage" THEN frames[Len(frames)].tokens
    ELSE LastUsage(SubSeq(frames, 1, Len(frames) - 1))

\* C30: the usage recorded for a streamed response is that of the last
\* frame of the stream that carries usage.
C30_LastUsageFrameRecorded ==
    (usg.pc = "recorded" /\ usg.kind # "None") =>
        usg.recorded = LastUsage(usg.taken)

(* ------------------ vertexexpress: local model answers ----------------- *)

LocalOp == loc.op \in {"models_list", "models_get"}

LocalUpRecords == SelectSeq(loc.records, LAMBDA r : r.dir = "up")

\* C31 as stated: a models list or models get answered from models.json
\* makes no upstream HTTP call and emits exactly one upstream record, whose
\* body is empty.
C31_LocalRecordBodyEmpty ==
    (LocalOp /\ loc.pc = "done" /\ loc.answer # 503) =>
        /\ loc.http = 0
        /\ Len(LocalUpRecords) = 1
        /\ LocalUpRecords[1].body = ""

\* C31: a models list or models get answered from models.json makes no
\* upstream HTTP call and emits exactly one upstream record; the request
\* body of that record is empty and its response body is the JSON built
\* from models.json.
C31_LocalAnswerOneRecord ==
    (LocalOp /\ loc.pc \in {"ok", "done"} /\ loc.status # 0) =>
        /\ loc.http = 0
        /\ loc.pc = "done" =>
              /\ Len(LocalUpRecords) = 1
              /\ LocalUpRecords[1].request_body = ""
              /\ LocalUpRecords[1].body \in {"models.json", "model json", "model not found"}
              /\ LocalUpRecords[1].status = loc.status

\* the second credential answered a models get for a model of models.json
\* after the first had no API key
C31_Witness ==
    /\ loc.pc = "done" /\ loc.op = "models_get" /\ loc.name = "m1"
    /\ loc.tried = 2 /\ loc.answer = 200 /\ loc.http = 0
    /\ Len(LocalUpRecords) = 1

(* --------------------- marks and pool rebuilds ------------------------- *)

\* C32: a disallow mark the request path applied in memory is still in the
\* pool after an admin mutation rebuilt the pool from the database, also
\* when the rebuild ran before the mark was persisted.
C32_MarkSurvivesRebuild ==
    \A i \in 1..Len(bus.applied) :
        <<bus.applied[i].cred, bus.applied[i].scope>> \in DOMAIN pool.disallow

(* ------------------------ PUT /config rejected ------------------------- *)

\* the in-memory state that put_config works on
ConfigMemory ==
    <<srv.config, srv.handleDsn, srv.handles, pool, reg, adm.auth, adm.users_by_id,
      srv.authFrom, srv.rebuilds, srv.bind, srv.sends, srv.proxy>>

\* put_config call p has answered with an error status
PutRejected(p) == srv.put[p].pc = "done" /\ srv.put[p].status # 200

EarlySteps ==
    {"idle", "done", "connect", "sync", "upsert_global_config",
     "ensure_admin_user", "ensure_admin_key", "load_snapshot"}

LateSteps == {"set_storage", "set_config", "bind_send"}

\* no step of put_config up to the load of the snapshot changes the
\* in-memory state, whether it rejects the call or not; a step after
\* apply_snapshot that rejects the call with 500 changes nothing itself
C33_RejectedPutStep ==
    \A p \in PutHandlers :
        /\ (PutStep(p) /\ srv.put[p].pc \in EarlySteps) =>
              /\ ConfigMemory' = ConfigMemory
              /\ srv'.put[p].steps = {} /\ ~srv'.put[p].changed
        /\ (PutStep(p) /\ srv.put[p].pc \in LateSteps /\ srv'.put[p].status = 500) =>
              /\ srv'.put[p].pc = "done"
              /\ ConfigMemory' = ConfigMemory

\* a call that was rejected after it had made a write was rejected with
\* 500 after apply_snapshot: it has replaced the auth map, the pools and
\* the provider maps
C33_LateRejection ==
    \A p \in PutHandlers :
        (PutRejected(p) /\ srv.put[p].steps # {}) =>
            /\ srv.put[p].status = 500
            /\ {"replace_snapshot", "apply_pools", "provider_ids", "provider_names"}
                  \subseteq srv.put[p].steps
            /\ "bind_send" \notin srv.put[p].steps

C33_LateWitness ==
    \E p \in PutHandlers :
        /\ PutRejected(p) /\ srv.put[p].status = 500
        /\ ~BindReceiverAlive
        /\ "set_config" \in srv.put[p].steps
        /\ srv.put[p].changed
        /\ srv.config = srv.put[p].desired
        /\ srv.bind # BindOf(srv.put[p].desired)

(* ------------------------------ serve loop ----------------------------- *)

\* C34: after any finite sequence of bind-address changes on the watch
\* channel, also a change away from the current address and back while the
\* old listener drains, the serve loop ends up listening on the address
\* sent last and does not return while the watch sender is alive: the loop
\* never exits.
C34_ServeLoopNeverReturns == srv.phase \notin {"exited", "failed"}

(* --------------------------- attempt loop ------------------------------ *)

\* the answer makes the attempt function return Ok
AttemptSucceeded(o) == o.kind = "resp" /\ IsSuccess(o.status)

\* C35: one execute invokes the attempt function at most once per
\* credential that was eligible at its start and stops at the first
\* success: it makes at most that many attempts, each with a credential
\* eligible at the start, never two with the same credential, and none after
\* a success.
C35_AttemptsBounded ==
    \A c \in Callers :
        LET e == exec[c]
            eligible == {entry.id : entry \in Eligible(e.snap, e.scope, e.at)}
        IN /\ Len(e.tried) <= Cardinality(eligible)
           /\ \A i \in 1..Len(e.tried) : e.tried[i].cred \in eligible
           /\ \A i, j \in 1..Len(e.tried) :
                 e.tried[i].cred = e.tried[j].cred => i = j
           /\ \A i \in 1..Len(e.tried) :
                 AttemptSucceeded(e.tried[i].o) => i = Len(e.tried)
           /\ (e.tried # <<>> /\ AttemptSucceeded(e.tried[Len(e.tried)].o))
                 => e.pc \in {"ok", "done"}

\* both calls ran at once: the first failed with both credentials and ended,
\* the second stopped at its first success
C35_Witness ==
    /\ Len(exec[1].tried) = 2 /\ exec[1].pc \in {"fail", "done"}
    /\ exec[1].ops # <<>>
    /\ Len(exec[2].tried) = 1 /\ exec[2].pc \in {"ok", "done"}
    /\ Len(exec[2].order) = 2

(* ---------------------- records of failed attempts --------------------- *)

\* the upstream answer of the attempt of this step, its credential, and
\* the records the step emitted
LastAnswer == exec'[1].tried[Len(exec'[1].tried)].o

LastCred == exec'[1].tried[Len(exec'[1].tried)].cred

NewRecords == SubSeq(traffic', Len(traffic) + 1, Len(traffic'))

\* the attempt got an HTTP response with a non-2xx status
GotNon2xx(o) == o.kind \in {"resp", "bodyerr"} /\ ~IsSuccess(o.status)

\* the one record an attempt emits for a non-2xx answer
IsFailureRecord(records, cred, o) ==
    /\ Len(records) = 1
    /\ records[1].dir = "up"
    /\ records[1].cred = cred
    /\ records[1].status = o.status
    /\ records[1].body = UpstreamBody(cred, o.status)

\* C36 as stated: every attempt that receives a non-2xx HTTP response emits
\* exactly one upstream record with that status and body, and no downstream
\* record, before its failure and mark are returned to the pool; an attempt
\* that fails before any HTTP response emits no record.
C36_EveryNon2xxRecordedStep ==
    AttemptStep(1) =>
        IF GotNon2xx(LastAnswer)
        THEN IsFailureRecord(NewRecords, LastCred, LastAnswer)
        ELSE NewRecords = <<>>

C36_EveryNon2xxRecorded == [][C36_EveryNon2xxRecordedStep]_vars

\* C36: every attempt that receives a non-2xx HTTP response and reads its
\* body emits exactly one upstream record with that status and body, and no
\* downstream record, by the time its failure and mark are returned to the
\* pool; an attempt that fails before any HTTP response arrives, or that
\* cannot read the body of the non-2xx response, emits no record.
C36_ReadNon2xxRecordedStep ==
    AttemptStep(1) =>
        IF GotNon2xx(LastAnswer) /\ LastAnswer.kind = "resp"
        THEN /\ IsFailureRecord(NewRecords, LastCred, LastAnswer)
             /\ exec'[1].pass.status = LastAnswer.status
             /\ pool' = IF ClassifyStatus(LastAnswer.status, LastAnswer.ra,
                                          exec[1].scope, now).level = "none"
                        THEN pool
                        ELSE ApplyMark(pool, LastCred,
                                       ClassifyStatus(LastAnswer.status, LastAnswer.ra,
                                                      exec[1].scope, now), now)
        ELSE NewRecords = <<>>

C36_ReadNon2xxRecorded == [][C36_ReadNon2xxRecordedStep]_vars

\* the first attempt got a 500 whose body could not be read, the second a
\* 429: the only record is the upstream record of the 429
C36_Witness ==
    /\ Len(exec[1].tried) = 2
    /\ exec[1].tried[1].o.kind = "bodyerr" /\ exec[1].tried[1].o.status = 500
    /\ exec[1].tried[2].o.kind = "resp" /\ exec[1].tried[2].o.status = 429
    /\ Len(traffic) = 1
    /\ IsFailureRecord(traffic, exec[1].tried[2].cred, exec[1].tried[2].o)

(* --------------------- provider id of upstream records ----------------- *)

\* C37: the upstream record of a transformed request carries the provider
\* id of the request's downstream metadata, as the upstream record of a
\* natively dispatched request does.
C37_UpstreamRecordProviderId ==
    (dsp.pc = "called" /\ dsp.meta.present) => dsp.provider_id = dsp.meta.provider_id

(* ------------------ transformed stream: frame order -------------------- *)

\* the frames among the items handed to the client (an upstream error is
\* handed on as an error item, not as a frame)
FramesOf(seq) == SelectSeq(seq, LAMBDA x : x # "ERR")

\* the frames sent to the downstream recording channel so far
SeenDown == st.recDown.got \o st.chDown

\* what the client may have of the frames handed to it: all of them, or
\* all but the last when it cancelled
ClientViews ==
    {FramesOf(st.delivered)} \cup
    (IF st.cancelled /\ FramesOf(st.delivered) # <<>>
     THEN {Front(FramesOf(st.delivered))} ELSE {})

\* C38: in a transformed stream the frames reach the client in the order
\* the transform produced them, and every frame is sent to the downstream
\* recording channel before it is handed to the client: the frames the
\* downstream recorder sees are the delivered frames in the same order plus
\* at most the one frame in flight when the client cancels.
C38_RecorderSeesDeliveredFrames ==
    (st.mode = "transform" /\ st.recDown.pc \in {"run", "done"}) =>
        /\ IsPrefix(st.delivered, Expected(st.upSeq))
        /\ SeenDown = FramesOf(st.delivered)
        /\ \A view \in ClientViews :
              IsPrefix(view, SeenDown) /\ Len(SeenDown) <= Len(view) + 1

\* the client cancelled a stream that had waited on a full channel and
\* had handed over the three frames of two chunks; the downstream recorder
\* finished with exactly these frames
C38_Witness ==
    /\ st.mode = "transform" /\ st.cancelled /\ st.waited
    /\ st.delivered = <<"data:a", "data:b1", "data:b2">>
    /\ st.recDown.pc = "done"
    /\ st.recDown.got = st.delivered


\* the attempt sent its request a second time and the answer was non-2xx
RetriedNon2xx ==
    fetch.sends = 2 /\ fetch.answers = 2 /\ ~IsSuccess(fetch.status)

\* the attempt of the credential is over
FetchOver == fetch.pc \in {"failed", "done"}

\* one refresh and one retry at most, after a 401 or 403 only, and none
\* without a refresh token
RefreshAndRetryBounded ==
    /\ fetch.refreshes <= 1
    /\ fetch.sends <= 1 + fetch.refreshes
    /\ fetch.refreshes = 1 => fetch.first \in {401, 403}
    /\ ~fetch.refresh_token => fetch.sends <= 1 /\ fetch.refreshes = 0

(* C39, as the claim states it: in a usage fetch a 401 or 403 triggers at
   most one token refresh and one retry in the attempt of a credential, a
   credential without a refresh token is never retried, and an attempt
   whose retried request is again non-2xx fails with the mark of the
   status classification. *)
C39_RetriedNon2xxMarkedByStatus ==
    /\ RefreshAndRetryBounded
    /\ (FetchOver /\ RetriedNon2xx) =>
          /\ fetch.result = "failed"
          /\ fetch.mark = ClassifyStatus(fetch.status, fetch.ra, AllModels, now)

(* C39, amended: the same bounds on refresh and retry; an attempt whose
   retried request is again non-2xx fails, with the mark of the status
   classification when the body of that answer could be read and with the
   mark of a network failure when it could not. *)
C39_OneRefreshOneRetry ==
    /\ RefreshAndRetryBounded
    /\ (FetchOver /\ RetriedNon2xx) =>
          /\ fetch.result = "failed"
          /\ fetch.mark = IF fetch.read
                          THEN ClassifyStatus(fetch.status, fetch.ra, AllModels, now)
                          ELSE NetworkFailure(AllModels).mark

\* a 401 was answered by a refresh and a retry, the retry met a 429 with a
\* Retry-After header, and the attempt failed with the cooldown of that header
C39_Witness ==
    /\ fetch.pc = "failed"
    /\ fetch.refresh_token
    /\ fetch.first = 401
    /\ fetch.refreshes = 1
    /\ fetch.sends = 2
    /\ fetch.status = 429
    /\ fetch.read
    /\ fetch.mark.level = "Cooldown"
    /\ fetch.mark.duration = 5


\* the stored credentials of a provider among `creds`, in storage order
StoredOf(creds, provider) ==
    SelectSeq(creds, LAMBDA r : r.provider_id = provider)

\* a stored disallow row whose scope kind and level the parsers know
KnownRow(row) ==
    /\ \/ row.scope_kind \in {"all_models", "all"}
       \/ row.scope_kind = "model" /\ row.scope_value # ""
    /\ row.level \in {"cooldown", "transient", "dead"}

\* the pool scope a known row stands for
RowScope(row) ==
    IF row.scope_kind = "model" THEN row.scope_value ELSE AllModels

\* the snapshot holds exactly the credentials of the provider among
\* `creds`, with weights of zero or more, and one entry for each
\* (credential, scope) of the known rows of these credentials among `dis`
SnapshotMatches(snap, provider, creds, dis) ==
    LET mine == StoredOf(creds, provider)
        ids  == {snap.credentials[i].id : i \in 1..Len(snap.credentials)}
        rows == {dis[i] : i \in 1..Len(dis)}
    IN /\ Len(snap.credentials) = Len(mine)
       /\ \A i \in 1..Len(mine) :
             /\ snap.credentials[i].id = mine[i].id
             /\ snap.credentials[i].enabled = mine[i].enabled
             /\ snap.credentials[i].weight >= 0
             /\ mine[i].weight >= 0 => snap.credentials[i].weight = mine[i].weight
       /\ \A k \in DOMAIN snap.disallow : k[1] \in ids
       /\ \A k1, k2 \in DOMAIN snap.disallow :
             (k1[1] = k2[1] /\ k1[2] = k2[2]) => k1 = k2
       /\ \A k \in DOMAIN snap.disallow :
             \E row \in rows :
                /\ KnownRow(row)
                /\ row.credential_id = k[1]
                /\ RowScope(row) = k[2]
                /\ snap.disallow[k].level = ParseDisallowLevel(row.level)
       /\ \A row \in rows :
             (KnownRow(row) /\ row.credential_id \in ids)
                => <<row.credential_id, RowScope(row)>> \in DOMAIN snap.disallow

\* the handlers whose last step is the apply_pools of refresh_provider_pool
RefreshOps ==
    {"credential", "delete_credential", "create_disallow", "delete_disallow",
     "create_provider", "update_provider"}

\* the rebuild of a handler ends: the snapshot it applies under the name of
\* its provider matches the rows that its refresh_provider_pool read
C40_RebuildMatchesRowsRead ==
    \A a \in Admins :
        LET h == adm.h[a]
        IN (h.op \in RefreshOps /\ h.pc = "apply_pools" /\ adm'.h[a].pc = "done") =>
              SnapshotMatches(IF h.name = ThisName THEN pool' ELSE reg'.other,
                              h.provider, h.creds, h.dis)

\* a handler that ran with no other handler beside it has rebuilt the pool
\* of its provider: the snapshot matches the tables
C40_AloneMatchesTables ==
    \A a \in Admins :
        LET h == adm.h[a]
        IN (/\ h.op \in RefreshOps /\ h.pc = "done" /\ adminOps = 1
            /\ \A b \in Admins \ {a} : adm.h[b].pc = "idle") =>
              SnapshotMatches(IF h.name = ThisName THEN pool ELSE reg.other,
                              h.provider, db[h.dsn].credentials, db[h.dsn].disallow)

(* C40: after an admin handler rebuilt the pool of a provider, the
   snapshot of that provider holds exactly the stored credentials with
   that provider id, each with a weight of zero or more (the stored weight
   when that is not negative); every disallow key names one of these
   credentials and no two keys share credential and scope; every entry
   comes from a stored row with a known scope kind and level, every such
   row of these credentials has its entry, and rows with an unknown kind
   or level make no entry.  The stored rows are those that the rebuild
   read, which are the tables when no other handler runs beside it. *)
C40_RebuiltSnapshotMatchesStorage ==
    [](C40_AloneMatchesTables) /\ [][C40_RebuildMatchesRowsRead]_vars

\* an update_credential has rebuilt this provider's pool over a table that
\* holds a credential of the other provider, a negative weight, two rows
\* for one scope and a row with an unknown kind or level: one credential,
\* weight 0, one entry
C40_Witness ==
    /\ adm.h[1].op = "credential" /\ adm.h[1].pc = "done" /\ adm.h[1].answer = 200
    /\ adm.h[1].name = ThisName /\ adm.h[2].pc = "idle"
    /\ \E i \in 1..Len(Tables.credentials) : Tables.credentials[i].provider_id = OtherProvider
    /\ \E i \in 1..Len(Tables.credentials) : Tables.credentials[i].weight < 0
    /\ \E i \in 1..Len(Tables.disallow) : ~KnownRow(Tables.disallow[i])
    /\ \E i, j \in 1..Len(Tables.disallow) :
          /\ i # j
          /\ Tables.disallow[i].credential_id = Tables.disallow[j].credential_id
          /\ RowScope(Tables.disallow[i]) = RowScope(Tables.disallow[j])
    /\ Len(pool.credentials) = 1
    /\ pool.credentials[1].weight = 0
    /\ Cardinality(DOMAIN pool.disallow) = 1

====
